---------------------------- MODULE Spec2Model ----------------------------
(***************************************************************************)
(* RQPAP: RaptorQ-based encoding of payload lines into DNA strands          *)
(* (Info-DNA) under GC / homopolymer / distance constraints.                *)
(*                                                                          *)
(* A base is its two-bit ordinal (A=0, C=1, G=2, T=3); a strand is a        *)
(* sequence of bases; a byte is a number in 0..255.  Distance thresholds    *)
(* are kept as percentages so that the comparisons are exact.               *)
(***************************************************************************)
EXTENDS Integers, Sequences, FiniteSets, TLC

(***************************************************************************)
(* Program constants.                                                       *)
(***************************************************************************)
SymbolSize == 6
\* the largest u8: data.len() as u8, packets_used as u8
U8Max == 255
DefaultMaxHpLen == 5
MinGcPercent == 40
MaxGcPercent == 60
DefaultOverhead == 0

(***************************************************************************)
(* Bounds of the model.                                                     *)
(***************************************************************************)
\* max_block_encode_loops handed to the encoder (the program passes 200)
MaxEncodeLoops == 3
\* the encoder is not asked for more packets than this in one run
MaxPackets == 3
\* largest overhead tried
MaxOverhead == 1

Max(a, b) == IF a >= b THEN a ELSE b
Min(a, b) == IF a <= b THEN a ELSE b

(***************************************************************************)
(* base_sequence.rs                                                         *)
(***************************************************************************)
IsCOrG(b) == b \in {1, 2}

GcCount(s) == Cardinality({i \in DOMAIN s : IsCOrG(s[i])})

SetMax(S) == CHOOSE x \in S : \A y \in S : y <= x
SetMin(S) == CHOOSE x \in S : \A y \in S : x <= y

\* the value of `current` in longest_hp once position i (1-based) is read:
\* the length of the run of equal bases that ends at i
HpRunEndingAt(s, i) ==
    i - SetMax({j \in 1..i : j = 1 \/ s[j - 1] # s[j]}) + 1

\* longest and current both start at 1, so the empty strand gives 1
LongestHp(s) == SetMax({1} \cup {HpRunEndingAt(s, i) : i \in 1..Len(s)})

KMersSet(s, k) == {SubSeq(s, i, i + k - 1) : i \in 1..(Len(s) - k + 1)}

\* k_mers / k_mers_set panic when k exceeds the strand's length
KMersPanics(s, k) == k > Len(s)

\* jaccard_distance_arc(s, t, k) >= pct/100, for strands of length >= k
JaccardAtLeast(s, t, k, pct) ==
    LET a == KMersSet(s, k)
        b == KMersSet(t, k)
        inter == Cardinality(a \cap b)
        union == Cardinality(a \cup b)
    IN  100 * (union - inter) >= pct * union

(***************************************************************************)
(* dna_rules.rs                                                             *)
(***************************************************************************)
\* gc() of the empty strand is 0/0 = NaN, which fails both comparisons
SatisfyGcHpRules(seq, max_hp_len) ==
    /\ Len(seq) > 0
    /\ 100 * GcCount(seq) >= MinGcPercent * Len(seq)
    /\ 100 * GcCount(seq) <= MaxGcPercent * Len(seq)
    /\ LongestHp(seq) <= max_hp_len

(***************************************************************************)
(* raptor.rs: byte to base mappings and the header                          *)
(***************************************************************************)
MapByteToBases(b) ==
    << (b \div 64) % 4, (b \div 16) % 4, (b \div 4) % 4, b % 4 >>

MapHalfByteToBases(b) == << (b \div 4) % 4, b % 4 >>

RECURSIVE MapBytesToBaseSequence(_)
MapBytesToBaseSequence(slice) ==
    IF slice = << >> THEN << >>
    ELSE MapByteToBases(Head(slice)) \o MapBytesToBaseSequence(Tail(slice))

\* data_len and packets_count arrive as u8
FinalizeEncoding(seq, data_len, packets_count) ==
    MapHalfByteToBases(data_len % 256)
        \o MapHalfByteToBases(packets_count % 256) \o seq

(***************************************************************************)
(* pseudo_permutation.rs                                                    *)
(***************************************************************************)
\* largest n with n*n <= p: (p as f64).sqrt() as usize
RECURSIVE ISqrtFrom(_, _)
ISqrtFrom(p, n) == IF (n + 1) * (n + 1) > p THEN n ELSE ISqrtFrom(p, n + 1)

IsOddNumberAlsoPrime(p) ==
    \A n \in 3..ISqrtFrom(p, 0) : (n % 2 = 1) => (p % n # 0)

RECURSIVE NextPrimeFrom(_)
NextPrimeFrom(p) == IF IsOddNumberAlsoPrime(p) THEN p ELSE NextPrimeFrom(p + 2)

NextPrime(n) == NextPrimeFrom(IF (n + 1) % 2 = 0 THEN n + 2 ELSE n + 1)

\* The n-th draw of the thread's random generator, as 1 + gen_range(0..p).
\* The generator is seeded by the system; a seed selects one stream of draws.
RandomDraw(seed, n, p) == 1 + ((seed * 7919 + n * 104729) % p)

\* new_from_p(m, p_1), taking its two draws at positions n and n + 1
PseudoPermutationNewFromP(m, p_1, seed, n) ==
    LET p == NextPrime(p_1)
    IN  [m |-> m, p |-> p, a |-> RandomDraw(seed, n, p),
         b |-> RandomDraw(seed, n + 1, p)]

PermutationApply(perm, x) == ((perm.a * x + perm.b) % perm.p) % perm.m

(***************************************************************************)
(* lsh.rs                                                                   *)
(***************************************************************************)
RECURSIVE Pow4(_)
Pow4(k) == IF k = 0 THEN 1 ELSE 4 * Pow4(k - 1)

\* the r permutations of LSH::new, each handing its prime to the next
RECURSIVE LshPermutations(_, _, _, _, _)
LshPermutations(k_mers, p, r, seed, n) ==
    IF r = 0 THEN << >>
    ELSE LET permutation == PseudoPermutationNewFromP(k_mers, p, seed, n)
         IN  << permutation >>
                 \o LshPermutations(k_mers, permutation.p, r - 1, seed, n + 2)

\* LSH::new(k, r, b) for r a multiple of b and k <= 33; a band maps a key
\* to a set of strands and starts empty; n is the position of its first draw
LshNew(k, r, b, seed, n) ==
    [k |-> k,
     band_size |-> r \div b,
     bands |-> [i \in 1..b |-> << >>],
     permutations |-> LshPermutations(Pow4(k), Pow4(k), r, seed, n)]

RECURSIVE InitialRowIdFrom(_, _)
InitialRowIdFrom(seq, i) ==
    IF i > Len(seq) THEN 0
    ELSE seq[i] * Pow4(i - 1) + InitialRowIdFrom(seq, i + 1)

InitialRowId(seq) == InitialRowIdFrom(seq, 1)

\* the inner loop of min_hashes for one permutation: the least permuted
\* shingle (the break on 0 leaves 0, the least); -1 stands for usize::MAX,
\* which is what a strand without k-mers leaves
MinHashLoop(perm, seq, k) ==
    LET perm_hashes ==
            {PermutationApply(perm, InitialRowId(SubSeq(seq, i, i + k - 1))) :
                 i \in 1..(Len(seq) - k + 1)}
    IN  IF perm_hashes = {} THEN -1 ELSE SetMin(perm_hashes)

MinHashes(lsh, seq) ==
    [j \in 1..Len(lsh.permutations) |->
        MinHashLoop(lsh.permutations[j], seq, lsh.k)]

\* usize::to_string as the sequence of its decimal digits
RECURSIVE ToDecimalString(_)
ToDecimalString(n) ==
    IF n < 10 THEN << n >> ELSE ToDecimalString(n \div 10) \o << n % 10 >>

RECURSIVE ConcatDecimal(_, _, _)
ConcatDecimal(min_hashes, from, count) ==
    IF count = 0 THEN << >>
    ELSE ToDecimalString(min_hashes[from])
             \o ConcatDecimal(min_hashes, from + 1, count - 1)

Signatures(lsh, seq) ==
    LET min_hashes == MinHashes(lsh, seq)
    IN  [band \in 1..Len(lsh.bands) |->
            ConcatDecimal(min_hashes, (band - 1) * lsh.band_size + 1,
                          lsh.band_size)]

BandGet(map, sig) == IF sig \in DOMAIN map THEN map[sig] ELSE {}

\* the body of insert's loop taking the None branch whatever the map holds
BandInsertAlwaysNew(map, sig, seq) ==
    [s \in DOMAIN map \cup {sig} |-> IF s = sig THEN {seq} ELSE map[s]]

\* the body of insert's loop for one band, under the band's write lock
BandInsert(map, sig, seq) ==
    IF sig \in DOMAIN map
    THEN [map EXCEPT ![sig] = @ \cup {seq}]
    ELSE map @@ (sig :> {seq})

LshInsert(lsh, seq) ==
    LET sigs == Signatures(lsh, seq)
    IN  [lsh EXCEPT !.bands =
            [band \in 1..Len(lsh.bands) |->
                BandInsert(lsh.bands[band], sigs[band], seq)]]

\* similar_seqs reading the first band only
SimilarSeqsFirstBand(lsh, seq) ==
    BandGet(lsh.bands[1], Signatures(lsh, seq)[1])

SimilarSeqs(lsh, seq) ==
    LET sigs == Signatures(lsh, seq)
    IN  UNION {BandGet(lsh.bands[band], sigs[band]) :
                   band \in 1..Len(lsh.bands)}

\* every strand stored in the index
LshContents(lsh) ==
    UNION {UNION {lsh.bands[band][sig] : sig \in DOMAIN lsh.bands[band]} :
               band \in 1..Len(lsh.bands)}

RECURSIVE LshInsertAll(_, _)
LshInsertAll(lsh, strands) ==
    IF strands = << >> THEN lsh
    ELSE LshInsertAll(LshInsert(lsh, Head(strands)), Tail(strands))

(***************************************************************************)
(* Inputs of the model.                                                     *)
(*                                                                          *)
(* A payload is known to the program only through its length and through    *)
(* the repair symbols the RaptorQ library derives from it, so a payload is  *)
(* a row of PayloadTable: its length in bytes, its repair symbols by        *)
(* repair symbol id (the last one stands for every later id), and the ids   *)
(* whose symbols add nothing to the decoder (linearly dependent ones).      *)
(* Row 3 is an all-zero payload, whose repair symbols are all zero.         *)
(***************************************************************************)
PayloadTable ==
    << [len |-> 4,
        symbols |-> << <<7, 1, 65, 206, 149, 22>>,
                       <<83, 165, 92, 144, 143, 74>>,
                       <<75, 184, 54, 124, 42, 240>> >>,
        dependent |-> {}],
       [len |-> 6,
        symbols |-> << <<11, 1, 65, 206, 149, 22>>,
                       <<154, 236, 2, 250, 31, 110>>,
                       <<27, 73, 24, 7, 239, 165>> >>,
        dependent |-> {}],
       [len |-> 1,
        symbols |-> << <<0, 0, 0, 0, 0, 0>> >>,
        dependent |-> {}],
       [len |-> 9,
        symbols |-> << <<176, 187, 142, 76, 101, 252>>,
                       <<126, 123, 181, 21, 77, 161>>,
                       <<46, 110, 132, 118, 115, 131>>,
                       <<92, 44, 22, 12, 57, 189>> >>,
        dependent |-> {2}] >>

\* the probe strands read from the FASTA file
Probes ==
    << <<0, 0, 2, 3, 1, 1, 0, 3, 2, 2, 1, 1, 1, 1, 3, 0, 2, 1, 0, 0, 0, 0,
         3, 3, 1, 0, 2, 2>>,
       <<0, 1, 0, 1, 0, 0, 1, 1, 0, 0, 0, 1, 1, 0, 0, 1, 3, 0, 3, 2, 2, 1,
         1, 1, 0, 1, 1, 2>> >>

ModeLsh == 0
ModeMixed == 1
ModeNaive == 2
LshKProbes == 4
LshKSeqs == 5
MinDistToProbesPercent == 40
MinDistToSeqsPercent == 40

\* number of bands and width of a band of both indexes (lsh_b, lsh_r / lsh_b)
LshBands == 2
LshBandSize == 1
\* number of random streams tried
NumSeeds == 2
\* largest packets_per_block handed to the encoder (encode_pipeline hands
\* INITIAL_PACKETS_PER_BLOCK = 5; the model runs with the smaller blocks)
MaxPacketsPerBlock == 2
\* lines of the input file
NumLines == 2
\* trails of encode_file's loop per line
MaxTrails == 2
\* the payloads the input file draws its lines from
LineRows == {1, 2, 3}

VARIABLES
    \* ---- the run's configuration and the probe index
    encoding_mode, rng_seed, arg_packets_per_block, arg_overhead, probes_lsh,
    \* ---- one call of encode_to_dna_with_rules: its data, locals, position
    \*      and result, the fields of EncStart
    enc,
    \* ---- encode_pipeline: the input lines, and for each payload what a call
    \*      of the encoder on it can return under the run's configuration
    lines, encoder_returns,
    \* ---- the shared stores of accepted strands: the index of LSH mode and
    \*      the list of mixed and naive mode
    seqs_lsh, seqs,
    \* ---- encode_file, one per line: position, trails, encoded_seq, the
    \*      list length seen under the read lock, result_seq
    wpc, trails, encoded_seq, len, result_seq,
    \* ---- the channel to the orchestrator, the FASTA file it writes, and
    \*      whether a panic in a worker has aborted the process
    channel, fasta, aborted,
    \* ---- one call of finalize_encoding: its arguments, position and result
    fin,
    \* ---- the parallel build of the probe index: the index, each
    \*      producer's probe and the bands it has inserted into, and the
    \*      query made of the finished index
    build,
    \* ---- one call of the key construction of signatures on two vectors of
    \*      min-hash values
    sigc,
    \* ---- one call of LSH::new and of initial_row_id on machine words
    newc,
    \* ---- the predictor client: who holds each channel's lock, and each
    \*      caller's position in dg_arc_from_id
    dg,
    \* ---- the start of main: the arguments and how far it has come
    startup,
    \* ---- one call of a function studied on its own: its arguments, its
    \*      locals, its position and its result
    call

confVars == << encoding_mode, rng_seed, arg_packets_per_block, arg_overhead,
              probes_lsh >>
pipeVars == << lines, encoder_returns, seqs_lsh, seqs, wpc, trails, encoded_seq,
              len, result_seq, channel, fasta, aborted >>
unitVars == << fin, build, sigc, newc, dg, startup, call >>
vars == << confVars, enc, pipeVars, unitVars >>

(***************************************************************************)
(* main.rs: the distance checks (fewer than 2000 candidates: sequential)    *)
(***************************************************************************)
\* pooled_dist_check over a slice, in order: "ok", "fail", or "panic" when a
\* k-mer set is asked of a strand shorter than k
PooledDistCheck(seq, candidates, min, k) ==
    LET Panics(i) == KMersPanics(seq, k) \/ KMersPanics(candidates[i], k)
        Stops(i) == Panics(i) \/ ~JaccardAtLeast(seq, candidates[i], k, min)
        stopping == {i \in 1..Len(candidates) : Stops(i)}
    IN  IF stopping = {} THEN "ok"
        ELSE IF Panics(SetMin(stopping)) THEN "panic" ELSE "fail"

\* pooled_dist_check_set: the candidates are visited in the hash set's
\* order, so every outcome some order produces is possible
PooledDistCheckSet(seq, candidates, min, k) ==
    IF candidates = {} THEN {"ok"}
    ELSE IF KMersPanics(seq, k) THEN {"panic"}
    ELSE LET short == {c \in candidates : KMersPanics(c, k)}
             near == {c \in candidates \ short : ~JaccardAtLeast(seq, c, k, min)}
         IN  (IF short # {} THEN {"panic"} ELSE {})
                 \cup (IF near # {} THEN {"fail"} ELSE {})
                 \cup (IF short = {} /\ near = {} THEN {"ok"} ELSE {})

\* the k of the accepted-strands index: lsh_k_seqs in every mode
SeqsK == LshKSeqs
ProbesK == LshKProbes

\* a gc_and_hp_check that lets every packet pass
GcAndHpCheckAlways(seq) == TRUE

\* the gc_and_hp_check that encode_file hands to the encoder
GcAndHpCheck(seq) == SatisfyGcHpRules(seq, DefaultMaxHpLen)

\* strand_func_lsh_mixed_modes; the probes of the model are not shorter than
\* the k-mer lengths, so the check does not panic
StrandFuncLshMixedModes(plsh, seq) ==
    /\ SatisfyGcHpRules(seq, DefaultMaxHpLen)
    /\ "ok" \in PooledDistCheckSet(seq, SimilarSeqs(plsh, seq),
                                   MinDistToProbesPercent, SeqsK)

StrandFuncNaiveMode(seq) == SatisfyGcHpRules(seq, DefaultMaxHpLen)

\* the strand_rule_no_dg that encode_file hands to the encoder
StrandRuleNoDg(mode, plsh, seq) ==
    IF mode = ModeNaive THEN StrandFuncNaiveMode(seq)
    ELSE StrandFuncLshMixedModes(plsh, seq)

(***************************************************************************)
(* raptor.rs: packets, the decoder, the combination of packets              *)
(***************************************************************************)
\* number of source symbols of a payload
SourceSymbols(data_len) == (data_len + SymbolSize - 1) \div SymbolSize

\* A serialized repair packet: the source block number, the 24-bit encoding
\* symbol id (repair ids follow the 10 extended source symbols of a small
\* block), then the symbol.
RepairPacket(row, repair_esi) ==
    LET esi == 10 + repair_esi
        symbols == PayloadTable[row].symbols
    IN  << 0, (esi \div 65536) % 256, (esi \div 256) % 256, esi % 256 >>
            \o symbols[Min(repair_esi + 1, Len(symbols))]

PacketEsi(p) == (p[2] * 65536 + p[3] * 256 + p[4]) - 10

NextNPackets(row, from_esi, count) ==
    [i \in 1..count |-> RepairPacket(row, from_esi + i - 1)]

\* p[3..] mapped to bases
PacketDna(p) == MapBytesToBaseSequence(SubSeq(p, 4, Len(p)))

PacketIsGood(p) == GcAndHpCheck(PacketDna(p))

\* generate_packets: the pairs (dna, packet) that pass the rule, in order
GeneratePackets(row, packets_per_block, from_esi) ==
    LET fresh == NextNPackets(row, from_esi, packets_per_block)
        kept == SelectSeq(fresh, PacketIsGood)
    IN  [i \in 1..Len(kept) |-> << PacketDna(kept[i]), kept[i] >>]

\* Decoder::decode answers Some once the packets fed so far suffice
DecoderDecoded(row, fed) ==
    Cardinality(fed \ PayloadTable[row].dependent)
        >= SourceSymbols(PayloadTable[row].len)

\* dna_strand after the first n packets of index_order were appended
RECURSIVE AppendedDna(_, _, _)
AppendedDna(packets, index_order, n) ==
    IF n = 0 THEN << >>
    ELSE AppendedDna(packets, index_order, n - 1) \o packets[index_order[n]][1]

\* The loop of combine_packets_to_strand, by the iteration it returns in.
\* After n packets the decoder has seen Fed(n); current_overhead, which
\* starts at -1, has gone up once for every iteration that found it decoded.
CombineLoop(packets, row, overhead, index_order) ==
    LET Fed(n) == {PacketEsi(packets[index_order[i]][2]) : i \in 1..n}
        Decoded(n) == DecoderDecoded(row, Fed(n))
        current_overhead(n) == Cardinality({m \in 1..n : Decoded(m)}) - 1
        missing_packets(n) ==
            (overhead - current_overhead(n)) - (Len(packets) - n)
        Returns(n) ==
            Decoded(n) /\ (missing_packets(n) > 0 \/ current_overhead(n) >= overhead)
        returning == {n \in 1..Len(index_order) : Returns(n)}
    IN  IF returning = {} THEN [kind |-> "NotDecodable"]
        ELSE LET packets_used == CHOOSE n \in returning : \A m \in returning : n <= m
             IN  IF missing_packets(packets_used) > 0
                 THEN [kind |-> "OverheadTooBig",
                       missing |-> missing_packets(packets_used)]
                 ELSE [kind |-> "Decoded",
                       strand |-> AppendedDna(packets, index_order, packets_used),
                       n |-> packets_used % 256]

\* the return statements of combine_packets_to_strand: a strand that meets
\* the overhead is Found or RulesNotSatisfied by strand_is_ok_func
PacketsResult(r, strand_is_ok_func(_)) ==
    IF r.kind = "Decoded"
    THEN IF strand_is_ok_func(r.strand)
         THEN [kind |-> "Found", strand |-> r.strand, n |-> r.n]
         ELSE [kind |-> "RulesNotSatisfied", strand |-> r.strand, n |-> r.n]
    ELSE r

CombinePacketsToStrand(packets, row, overhead, index_order, strand_is_ok_func(_)) ==
    PacketsResult(CombineLoop(packets, row, overhead, index_order),
                  strand_is_ok_func)

\* random_order(0..count): count swaps of two random positions reach every
\* permutation of the indexes
RandomOrder(count) ==
    {f \in [1..count -> 1..count] : \A i, j \in 1..count : f[i] = f[j] => i = j}

RandomOrders == [count \in 0..MaxPackets |-> RandomOrder(count)]

(***************************************************************************)
(* main.rs, main: the probe index.  LSH::new(k, 1, 1) is built first for    *)
(* both indexes (draws 0..3); in LSH and mixed mode the probe index is      *)
(* rebuilt with r permutations and every probe is inserted.  The inserts    *)
(* run on a thread pool through SafeCell::get_mut; insert only reads the    *)
(* permutations and changes a band's map under that band's write lock, and  *)
(* insertions into sets commute, so every schedule builds the same index.   *)
(***************************************************************************)
LshR == LshBands * LshBandSize

BuildProbesLsh(mode, seed) ==
    IF mode = ModeNaive THEN LshNew(LshKProbes, 1, 1, seed, 0)
    ELSE LshInsertAll(LshNew(LshKProbes, LshR, LshBands, seed, 4), Probes)

ConfInit ==
    /\ encoding_mode \in {ModeLsh, ModeMixed, ModeNaive}
    /\ rng_seed \in 1..NumSeeds
    /\ arg_packets_per_block \in 1..MaxPacketsPerBlock
    /\ arg_overhead \in 0..MaxOverhead
    /\ probes_lsh = BuildProbesLsh(encoding_mode, rng_seed)

\* what encode_file hands to the encoder
EncConf(mode, plsh, ppb, ov) ==
    [mode |-> mode, plsh |-> plsh, packets_per_block |-> ppb, overhead |-> ov]

Conf == EncConf(encoding_mode, probes_lsh, arg_packets_per_block, arg_overhead)

(***************************************************************************)
(* raptor.rs, encode_to_dna_with_rules, one step per loop iteration.  A     *)
(* step maps the locals e to the set of locals it can leave (empty when     *)
(* the step is not enabled).  pc: "while" at the head of the outer loop,    *)
(* "for" at the head of the combination loop (attempt counts its            *)
(* iterations), "returned" after a return; ret.exhausted tells a return     *)
(* after the outer loop from one inside it.                                 *)
(***************************************************************************)
NoEnc == [pc |-> "idle"]

EncStart(c, row) ==
    [row |-> row,
     block_loop_num |-> 0,
     packets_count |-> c.packets_per_block,
     from_repair_esi |-> 0,
     last_esi |-> 0,
     good_packets |-> << >>,
     last_strand |-> << >>,
     packets_count_last |-> 0,
     attempt |-> 0,
     dg_check |-> [asked |-> FALSE, strand |-> << >>, result |-> FALSE],
     pc |-> "while",
     ret |-> [strand |-> << >>, exhausted |-> FALSE]]

\* what one combine_packets_to_strand call on the pool can return, over the
\* orders random_order can produce
EncCombineResults(c, e) ==
    LET loops == {CombineLoop(e.good_packets, e.row, c.overhead, index_order) :
                      index_order \in RandomOrders[Len(e.good_packets)]}
        StrandRule(seq) == StrandRuleNoDg(c.mode, c.plsh, seq)
    IN  {PacketsResult(r, StrandRule) : r \in loops}

\* WhileEnter without `block_loop_num += 1`
WhileEnterWithoutCount(c, e) ==
    LET fresh_packets ==
            GeneratePackets(e.row, e.packets_count, e.from_repair_esi)
    IN  IF /\ e.pc = "while"
           /\ e.block_loop_num < MaxEncodeLoops
           /\ Len(e.good_packets) + Len(fresh_packets) <= MaxPackets
        THEN {[e EXCEPT !.last_esi = e.from_repair_esi + e.packets_count,
                        !.good_packets = @ \o fresh_packets,
                        !.attempt = 0,
                        !.pc = "for"]}
        ELSE {}

\* while block_loop_num < max_block_encode_loops { ...generate_packets...
WhileEnter(c, e) ==
    LET fresh_packets ==
            GeneratePackets(e.row, e.packets_count, e.from_repair_esi)
    IN  IF /\ e.pc = "while"
           /\ e.block_loop_num < MaxEncodeLoops
           /\ Len(e.good_packets) + Len(fresh_packets) <= MaxPackets
        THEN {[e EXCEPT !.block_loop_num = @ + 1,
                        !.last_esi = e.from_repair_esi + e.packets_count,
                        !.good_packets = @ \o fresh_packets,
                        !.attempt = 0,
                        !.pc = "for"]}
        ELSE {}

\* ForMatch with arms for OverheadTooBig and NotDecodable that break without
\* adding to packets_count
ForMatchKeepingCount(c, e, r) ==
    CASE r.kind = "Found" ->
             {[e EXCEPT !.dg_check = [asked |-> TRUE, strand |-> r.strand,
                                      result |-> TRUE],
                        !.ret = [strand |-> FinalizeEncoding(
                                                r.strand,
                                                PayloadTable[e.row].len, r.n),
                                 exhausted |-> FALSE],
                        !.pc = "returned"],
              [e EXCEPT !.dg_check = [asked |-> TRUE, strand |-> r.strand,
                                      result |-> FALSE],
                        !.last_strand = r.strand,
                        !.packets_count_last = r.n,
                        !.attempt = @ + 1]}
      [] r.kind = "RulesNotSatisfied" ->
             {[e EXCEPT !.last_strand = r.strand,
                        !.packets_count_last = r.n,
                        !.attempt = @ + 1]}
      [] r.kind \in {"OverheadTooBig", "NotDecodable"} ->
             {[e EXCEPT !.from_repair_esi = e.last_esi + 1,
                        !.pc = "while"]}

\* the match on one PacketsResult r; dg_check asks an external server, so a
\* Found strand is returned or kept as last_strand; e.dg_check keeps the
\* strand of the last call of dg_check and its answer
ForMatch(c, e, r) ==
    CASE r.kind = "Found" ->
             {[e EXCEPT !.dg_check = [asked |-> TRUE, strand |-> r.strand,
                                      result |-> TRUE],
                        !.ret = [strand |-> FinalizeEncoding(
                                                r.strand,
                                                PayloadTable[e.row].len, r.n),
                                 exhausted |-> FALSE],
                        !.pc = "returned"],
              [e EXCEPT !.dg_check = [asked |-> TRUE, strand |-> r.strand,
                                      result |-> FALSE],
                        !.last_strand = r.strand,
                        !.packets_count_last = r.n,
                        !.attempt = @ + 1]}
      [] r.kind = "RulesNotSatisfied" ->
             {[e EXCEPT !.last_strand = r.strand,
                        !.packets_count_last = r.n,
                        !.attempt = @ + 1]}
      [] r.kind = "OverheadTooBig" ->
             {[e EXCEPT !.packets_count =
                            @ + r.missing * c.packets_per_block + 1,
                        !.from_repair_esi = e.last_esi + 1,
                        !.pc = "while"]}
      [] r.kind = "NotDecodable" ->
             {[e EXCEPT !.packets_count = @ + c.packets_per_block,
                        !.from_repair_esi = e.last_esi + 1,
                        !.pc = "while"]}

\* one iteration of the combination loop
ForBody(c, e) ==
    IF e.pc = "for" /\ e.attempt < Len(e.good_packets)
    THEN UNION {ForMatch(c, e, r) : r \in EncCombineResults(c, e)}
    ELSE {}

\* ForEnd without `from_repair_esi = last_esi + 1`
ForEndWithoutAdvance(c, e) ==
    IF e.pc = "for" /\ e.attempt >= Len(e.good_packets)
    THEN {[e EXCEPT !.pc = "while"]}
    ELSE {}

\* the combination loop has run good_packets.len() times
ForEnd(c, e) ==
    IF e.pc = "for" /\ e.attempt >= Len(e.good_packets)
    THEN {[e EXCEPT !.from_repair_esi = e.last_esi + 1, !.pc = "while"]}
    ELSE {}

\* the outer loop is exhausted: return the last strand finalized
Exhausted(c, e) ==
    IF e.pc = "while" /\ e.block_loop_num >= MaxEncodeLoops
    THEN {[e EXCEPT !.ret = [strand |-> FinalizeEncoding(
                                            e.last_strand,
                                            PayloadTable[e.row].len,
                                            e.packets_count_last),
                             exhausted |-> TRUE],
                    !.pc = "returned"]}
    ELSE {}

EncWhileEnter ==
    enc' \in WhileEnter(Conf, enc) /\ UNCHANGED << confVars, pipeVars, unitVars >>
EncForBody ==
    enc' \in ForBody(Conf, enc) /\ UNCHANGED << confVars, pipeVars, unitVars >>
EncForEnd ==
    enc' \in ForEnd(Conf, enc) /\ UNCHANGED << confVars, pipeVars, unitVars >>
EncExhausted ==
    enc' \in Exhausted(Conf, enc) /\ UNCHANGED << confVars, pipeVars, unitVars >>

\* no pipeline runs
PipeIdle ==
    /\ lines = << >> /\ encoder_returns = << >>
    /\ seqs_lsh = LshNew(LshKSeqs, 1, 1, rng_seed, 2) /\ seqs = << >>
    /\ wpc = << >> /\ trails = << >> /\ encoded_seq = << >> /\ len = << >>
    /\ result_seq = << >> /\ channel = << >> /\ fasta = << >>
    /\ aborted = FALSE

NoFin == [pc |-> "idle"]

\* the calls studied on their own that are not running, all but u
UnitsIdleBut(u) ==
    /\ IF u = "fin" THEN TRUE ELSE fin = NoFin
    /\ IF u = "build" THEN TRUE ELSE build = NoFin
    /\ IF u = "sigc" THEN TRUE ELSE sigc = NoFin
    /\ IF u = "newc" THEN TRUE ELSE newc = NoFin
    /\ IF u = "dg" THEN TRUE ELSE dg = NoFin
    /\ IF u = "startup" THEN TRUE ELSE startup = NoFin
    /\ IF u = "call" THEN TRUE ELSE call = NoFin

SpecEncInit ==
    /\ ConfInit
    /\ \E row \in DOMAIN PayloadTable : enc = EncStart(Conf, row)
    /\ PipeIdle
    /\ UnitsIdleBut("none")

SpecEncNext ==
    \/ EncWhileEnter
    \/ EncForBody
    \/ EncForEnd
    \/ EncExhausted

SpecEnc == SpecEncInit /\ [][SpecEncNext]_vars

(***************************************************************************)
(* One call of finalize_encoding on arguments of the full u8 range.         *)
(***************************************************************************)
SpecFinalizeInit ==
    /\ encoding_mode = ModeNaive
    /\ rng_seed = 1
    /\ arg_packets_per_block = 1
    /\ arg_overhead = DefaultOverhead
    /\ probes_lsh = BuildProbesLsh(encoding_mode, rng_seed)
    /\ enc = NoEnc
    /\ PipeIdle
    /\ UnitsIdleBut("fin")
    /\ fin \in [pc : {"call"},
                seq : {PacketDna(RepairPacket(1, 0))},
                data_len : 0..U8Max,
                packets_count : 0..U8Max,
                strand : {<< >>}]

Finalize ==
    /\ fin.pc = "call"
    /\ fin' = [fin EXCEPT !.pc = "done",
                          !.strand = FinalizeEncoding(fin.seq, fin.data_len,
                                                      fin.packets_count)]
    /\ UNCHANGED << confVars, enc, pipeVars, build, sigc, newc, dg, startup, call >>

SpecFinalize == SpecFinalizeInit /\ [][Finalize]_vars

(***************************************************************************)
(* Properties of the encoder.                                               *)
(***************************************************************************)
\* the strand after the 4-base header
AfterHeader(strand) == SubSeq(strand, 5, Len(strand))

\* the strand is what the first n packets of the pool in some order map to,
\* and a fresh decoder fed these packets reports the payload decoded
DecodableFromPool(row, packets, strand) ==
    \E index_order \in RandomOrders[Len(packets)] :
        \E n \in 0..Len(packets) :
            /\ AppendedDna(packets, index_order, n) = strand
            /\ DecoderDecoded(row, {PacketEsi(packets[index_order[i]][2]) :
                                        i \in 1..n})

\* C7 (as stated): every strand encode_to_dna_with_rules returns, found or
\* returned on exhaustion, carries after its 4-base header the concatenation
\* of packet mappings whose packets make a fresh decoder report the payload
\* decoded.
C7_ReturnedStrandDecodable ==
    enc.pc = "returned" =>
        DecodableFromPool(enc.row, enc.good_packets, AfterHeader(enc.ret.strand))

\* C8 (as stated): the finalized strand is a 4-base header followed by the
\* unchanged strand, and the header determines the payload length L and the
\* packet count P for every L and P in 0..255: no other length has the same
\* first two bases, no other count the same next two.
C8_HeaderRecoversLengthAndCount ==
    fin.pc = "done" =>
        /\ Len(fin.strand) = 4 + Len(fin.seq)
        /\ AfterHeader(fin.strand) = fin.seq
        /\ \A l \in 0..U8Max :
               MapHalfByteToBases(l) = SubSeq(fin.strand, 1, 2)
                   => l = fin.data_len
        /\ \A p \in 0..U8Max :
               MapHalfByteToBases(p) = SubSeq(fin.strand, 3, 4)
                   => p = fin.packets_count

\* what is left of the call: outer iterations first, then the position in
\* the iteration, then the attempts left in the combination loop
EncMeasure(e) ==
    CASE e.pc = "returned" -> 0
      [] e.pc = "while" ->
             (MaxEncodeLoops - e.block_loop_num) * (MaxPackets + 2) + 1
      [] e.pc = "for" ->
             (MaxEncodeLoops - e.block_loop_num) * (MaxPackets + 2) + 2
                 + (Len(e.good_packets) - e.attempt)

\* C10: encode_to_dna_with_rules terminates: the outer loop is entered at
\* most max_block_encode_loops times, an iteration makes at most
\* |good_packets| combination attempts, and every step of the call brings it
\* closer to its return, whatever the predicates, the dg answer and the
\* decoder say, also when no packet ever enters the pool.
C10_EncoderTerminates ==
    /\ [](/\ enc.block_loop_num <= MaxEncodeLoops
          /\ enc.attempt <= Len(enc.good_packets)
          /\ EncMeasure(enc) >= 0)
    /\ [][EncMeasure(enc') < EncMeasure(enc)]_vars

\* the call has returned after max_block_encode_loops iterations in which no
\* packet entered the pool
C10_Witness ==
    /\ enc.pc = "returned"
    /\ enc.ret.exhausted
    /\ enc.block_loop_num = MaxEncodeLoops
    /\ enc.good_packets = << >>

\* the strand is what the first n packets of the pool map to in some order
CombinedFromPool(packets, strand) ==
    \E index_order \in RandomOrders[Len(packets)] :
        \E n \in 1..Len(packets) :
            AppendedDna(packets, index_order, n) = strand

\* C28: every packet of the pool is the mapping of its bytes and passed the
\* GC/HP predicate; dg_check is asked only about strands that passed the
\* whole-strand predicate; and a call that returned before the outer loop
\* was exhausted returns, after the header, a strand combined from packets
\* of the pool that passed the whole-strand predicate and then dg_check.
C28_ReturnedStrandPassedAllRules ==
    /\ \A i \in DOMAIN enc.good_packets :
           /\ enc.good_packets[i][1] = PacketDna(enc.good_packets[i][2])
           /\ SatisfyGcHpRules(enc.good_packets[i][1], DefaultMaxHpLen)
    /\ enc.dg_check.asked =>
           StrandRuleNoDg(encoding_mode, probes_lsh, enc.dg_check.strand)
    /\ (enc.pc = "returned" /\ ~enc.ret.exhausted) =>
           /\ enc.dg_check = [asked |-> TRUE,
                              strand |-> AfterHeader(enc.ret.strand),
                              result |-> TRUE]
           /\ StrandRuleNoDg(encoding_mode, probes_lsh,
                             AfterHeader(enc.ret.strand))
           /\ CombinedFromPool(enc.good_packets, AfterHeader(enc.ret.strand))

\* a call has returned a found strand from a later round, after an earlier
\* candidate was set aside as last_strand
C28_Witness ==
    /\ enc.pc = "returned"
    /\ ~enc.ret.exhausted
    /\ enc.block_loop_num >= 2
    /\ enc.last_strand # << >>

\* C30: a step of the call never lowers packets_count.  A combination
\* attempt that leaves the combination loop early does so on OverheadTooBig(m),
\* adding m * packets_per_block + 1, or on NotDecodable, adding
\* packets_per_block, and nothing else changes packets_count.  An attempt
\* after which the loop goes on had a candidate that failed the whole-strand
\* predicate or dg_check; the candidate is kept as last_strand with its
\* packet count, and packets_count is unchanged.
C30_PacketsCountGrowsOnlyOnBreak ==
    [][LET added == enc'.packets_count - enc.packets_count
           ppb == arg_packets_per_block
           results == EncCombineResults(Conf, enc)
           attempted == enc.pc = "for" /\ enc.attempt < Len(enc.good_packets)
       IN  /\ added >= 0
           /\ (attempted /\ enc'.pc = "while")
                  <=> added > 0
           /\ added > 0 =>
                  \E r \in results :
                      \/ /\ r.kind = "OverheadTooBig"
                         /\ added = r.missing * ppb + 1
                      \/ /\ r.kind = "NotDecodable"
                         /\ added = ppb
           /\ (attempted /\ enc'.pc = "for") =>
                  /\ added = 0
                  /\ enc'.attempt = enc.attempt + 1
                  /\ \E r \in results :
                         /\ r.kind \in {"Found", "RulesNotSatisfied"}
                         /\ enc'.last_strand = r.strand
                         /\ enc'.packets_count_last = r.n
                         /\ IF r.kind = "Found"
                            THEN enc'.dg_check = [asked |-> TRUE,
                                                  strand |-> r.strand,
                                                  result |-> FALSE]
                            ELSE /\ enc'.dg_check = enc.dg_check
                                 /\ ~StrandRuleNoDg(encoding_mode, probes_lsh,
                                                    r.strand)]_vars

\* packets_count has grown and a candidate is kept as last_strand
C30_Witness ==
    /\ enc.pc = "for"
    /\ enc.packets_count > arg_packets_per_block
    /\ enc.last_strand # << >>

\* the repair ids of the packets of the pool, in the pool's order
PoolEsis == [i \in DOMAIN enc.good_packets |-> PacketEsi(enc.good_packets[i][2])]

\* C31: an outer iteration asks for the packets_count repair symbols from
\* from_repair_esi on, and the iteration ends with from_repair_esi advanced
\* by 1 + the packets_count it asked for, not the packets_count increased
\* meanwhile; so the repair ids of the pool are strictly increasing, each
\* symbol is in the pool at most once, and the ids of an iteration lie in
\* its range, above every id of the iterations before.
C31_EsiRangesDisjoint ==
    /\ [](enc.pc \in {"while", "for"} =>
              /\ \A i, j \in DOMAIN PoolEsis : i < j => PoolEsis[i] < PoolEsis[j]
              /\ enc.pc = "while" =>
                     \A i \in DOMAIN PoolEsis : PoolEsis[i] < enc.from_repair_esi - 1
              /\ enc.pc = "for" =>
                     /\ enc.last_esi = enc.from_repair_esi + enc.packets_count
                     /\ \A i \in DOMAIN PoolEsis : PoolEsis[i] < enc.last_esi)
    /\ [][/\ (enc.pc = "while" /\ enc'.pc = "for") =>
                 /\ enc'.from_repair_esi = enc.from_repair_esi
                 /\ enc'.last_esi = enc.from_repair_esi + enc.packets_count
                 /\ \A i \in DOMAIN PoolEsis' \ DOMAIN PoolEsis :
                        /\ PoolEsis'[i] >= enc.from_repair_esi
                        /\ PoolEsis'[i] < enc.from_repair_esi + enc.packets_count
          /\ (enc.pc = "for" /\ enc'.pc = "while") =>
                 enc'.from_repair_esi
                     = enc.from_repair_esi + enc.packets_count + 1
          /\ (enc.pc = "for" /\ enc'.pc = "for") =>
                 enc'.from_repair_esi = enc.from_repair_esi]_vars

\* the pool holds packets of two iterations, and the second iteration began
\* after packets_count had grown in the first
C31_Witness ==
    /\ enc.pc = "for"
    /\ enc.from_repair_esi > 0
    /\ enc.packets_count > arg_packets_per_block
    /\ \E i, j \in DOMAIN PoolEsis :
           /\ PoolEsis[i] < enc.from_repair_esi
           /\ PoolEsis[j] >= enc.from_repair_esi

(***************************************************************************)
(* A whole call of encode_to_dna_with_rules.  The encoder works on its own  *)
(* locals and reads nothing another thread writes, so for the pipeline a    *)
(* call is one step that returns any value the loop above can return.       *)
(***************************************************************************)
EncSteps(c, e) ==
    WhileEnter(c, e) \cup ForBody(c, e) \cup ForEnd(c, e) \cup Exhausted(c, e)

RECURSIVE EncReach(_, _, _)
EncReach(c, frontier, seen) ==
    IF frontier = {} THEN seen
    ELSE LET next == UNION {EncSteps(c, e) : e \in frontier}
         IN  EncReach(c, next \ seen, seen \cup next)

EncodeToDnaWithRules(c, row) ==
    {e.ret : e \in {x \in EncReach(c, {EncStart(c, row)}, {EncStart(c, row)}) :
                        x.pc = "returned"}}

(***************************************************************************)
(* main.rs: encode_pipeline and encode_file.  Worker w runs encode_file     *)
(* for line w; its positions are "encode" (head of the loop), "arrived"     *)
(* (the encoder has returned), "checked" (the read-locked check passed,     *)
(* the lock is dropped), "send" (left the loop) and "done".  A section      *)
(* under a lock is one step.  A panic in a spawned task aborts the process. *)
(***************************************************************************)
Workers == 1..NumLines

\* the index of accepted strands: LSH::new(k, 1, 1), rebuilt in LSH mode
BuildSeqsLsh(mode, seed) ==
    IF mode = ModeLsh
    THEN LshNew(LshKSeqs, LshR, LshBands, seed, 4 + 2 * LshR)
    ELSE LshNew(LshKSeqs, 1, 1, seed, 2)

PipeInit ==
    /\ encoder_returns =
           [row \in LineRows |-> EncodeToDnaWithRules(Conf, row)]
    /\ lines \in [Workers -> LineRows]
    /\ seqs_lsh = BuildSeqsLsh(encoding_mode, rng_seed)
    /\ seqs = << >>
    /\ wpc = [w \in Workers |-> "encode"]
    /\ trails = [w \in Workers |-> 0]
    /\ encoded_seq = [w \in Workers |-> [strand |-> << >>, exhausted |-> FALSE]]
    /\ len = [w \in Workers |-> 0]
    /\ result_seq = [w \in Workers |-> << >>]
    /\ channel = << >>
    /\ fasta = << >>
    /\ aborted = FALSE

\* trails += 1 and the call of encode_to_dna_with_rules
Encode(w) ==
    /\ ~aborted
    /\ wpc[w] = "encode"
    /\ trails[w] < MaxTrails
    /\ trails' = [trails EXCEPT ![w] = @ + 1]
    /\ \E r \in encoder_returns[lines[w]] : encoded_seq' = [encoded_seq EXCEPT ![w] = r]
    /\ wpc' = [wpc EXCEPT ![w] = "arrived"]
    /\ UNCHANGED << confVars, enc, unitVars, lines, encoder_returns, seqs_lsh, seqs, len,
                    result_seq, channel, fasta, aborted >>

\* LshCheck without the comparison with the similar strands
LshCheckWithoutComparison(lsh, seq) ==
    IF KMersPanics(seq, lsh.k) THEN {"panic"} ELSE {"ok"}

\* what the check of LSH mode can answer: min_hashes asks the k-mers of the
\* strand, then the similar strands are compared
LshCheck(lsh, seq) ==
    IF KMersPanics(seq, lsh.k) THEN {"panic"}
    ELSE PooledDistCheckSet(seq, SimilarSeqs(lsh, seq), MinDistToSeqsPercent,
                            SeqsK)

\* LSH mode, under the write lock of the index: check, insert, break
LshCheckInsert(w) ==
    /\ ~aborted
    /\ encoding_mode = ModeLsh
    /\ wpc[w] = "arrived"
    /\ \E answer \in LshCheck(seqs_lsh, encoded_seq[w].strand) :
          \/ /\ answer = "ok"
             /\ seqs_lsh' = LshInsert(seqs_lsh, encoded_seq[w].strand)
             /\ result_seq' = [result_seq EXCEPT ![w] = encoded_seq[w].strand]
             /\ wpc' = [wpc EXCEPT ![w] = "send"]
             /\ UNCHANGED aborted
          \/ /\ answer = "fail"
             /\ wpc' = [wpc EXCEPT ![w] = "encode"]
             /\ UNCHANGED << seqs_lsh, result_seq, aborted >>
          \/ /\ answer = "panic"
             /\ aborted' = TRUE
             /\ UNCHANGED << seqs_lsh, result_seq, wpc >>
    /\ UNCHANGED << confVars, enc, unitVars, lines, encoder_returns, seqs, trails,
                    encoded_seq, len, channel, fasta >>

\* ReadLockedCheck without the comparison with the probes
ReadLockedCheckWithoutProbes(mode, seq, list) ==
    PooledDistCheck(seq, list, MinDistToSeqsPercent, SeqsK)

\* the checks of mixed and naive mode under the read lock of the list
ReadLockedCheck(mode, seq, list) ==
    LET to_seqs == PooledDistCheck(seq, list, MinDistToSeqsPercent, SeqsK)
    IN  IF mode = ModeNaive /\ to_seqs = "ok"
        THEN PooledDistCheck(seq, Probes, MinDistToProbesPercent, ProbesK)
        ELSE to_seqs

\* mixed and naive mode: take the read lock, note the length, check, drop
ReadCheck(w) ==
    /\ ~aborted
    /\ encoding_mode # ModeLsh
    /\ wpc[w] = "arrived"
    /\ len' = [len EXCEPT ![w] = Len(seqs)]
    /\ LET answer == ReadLockedCheck(encoding_mode, encoded_seq[w].strand, seqs)
       IN  /\ wpc' = [wpc EXCEPT ![w] = CASE answer = "ok" -> "checked"
                                          [] answer = "fail" -> "encode"
                                          [] answer = "panic" -> @]
           /\ aborted' = (answer = "panic")
    /\ UNCHANGED << confVars, enc, unitVars, lines, encoder_returns, seqs_lsh, seqs, trails,
                    encoded_seq, result_seq, channel, fasta >>

\* is_inserted_consistent without the check of the strands pushed meanwhile
IsInsertedConsistentWithoutRecheck(length, seq, list) == "ok"

\* is_inserted_consistent that pushes whatever the check of the strands pushed
\* meanwhile says, short of a panic
IsInsertedConsistentIgnoringCheck(length, seq, list) ==
    IF Len(list) - length = 0 THEN "ok"
    ELSE IF PooledDistCheck(seq, SubSeq(list, length + 1, Len(list)),
                            MinDistToSeqsPercent, SeqsK) = "panic"
         THEN "panic" ELSE "ok"

\* write_lock.push(encoded_seq) put in front of the list instead
PushInFront(list, seq) == << seq >> \o list

\* a push that leaves the list as it is
PushNothing(list, seq) == list

\* write_lock.push(encoded_seq.clone())
Push(list, seq) == Append(list, seq)

\* is_inserted_consistent(len, ...) on the list: "ok" stands for true
IsInsertedConsistent(length, seq, list) ==
    IF Len(list) - length = 0 THEN "ok"
    ELSE PooledDistCheck(seq, SubSeq(list, length + 1, Len(list)),
                         MinDistToSeqsPercent, SeqsK)

\* mixed and naive mode: is_inserted_consistent under the write lock
InsertConsistent(w) ==
    /\ ~aborted
    /\ wpc[w] = "checked"
    /\ LET answer == IsInsertedConsistent(len[w], encoded_seq[w].strand, seqs)
       IN  /\ seqs' = IF answer = "ok"
                      THEN Push(seqs, encoded_seq[w].strand) ELSE seqs
           /\ result_seq' = IF answer = "ok"
                            THEN [result_seq EXCEPT ![w] = encoded_seq[w].strand]
                            ELSE result_seq
           /\ wpc' = [wpc EXCEPT ![w] = CASE answer = "ok" -> "send"
                                          [] answer = "fail" -> "encode"
                                          [] answer = "panic" -> @]
           /\ aborted' = (answer = "panic")
    /\ UNCHANGED << confVars, enc, unitVars, lines, encoder_returns, seqs_lsh, trails,
                    encoded_seq, len, channel, fasta >>

\* sender.send((line.0, result_seq, ...)), line.0 being line_id + 1
Send(w) ==
    /\ ~aborted
    /\ wpc[w] = "send"
    /\ channel' = Append(channel, << w, result_seq[w] >>)
    /\ wpc' = [wpc EXCEPT ![w] = "done"]
    /\ UNCHANGED << confVars, enc, unitVars, lines, encoder_returns, seqs_lsh, seqs, trails,
                    encoded_seq, len, result_seq, fasta, aborted >>

\* the orchestrator: receiver.recv(), the append to the FASTA file, and the
\* Line Id of the row reported for the same message
Recv ==
    /\ ~aborted
    /\ channel # << >>
    /\ fasta' = Append(fasta, [caption |-> Head(channel)[1] + 1,
                               strand |-> Head(channel)[2],
                               line_id |-> Head(channel)[1]])
    /\ channel' = Tail(channel)
    /\ UNCHANGED << confVars, enc, unitVars, lines, encoder_returns, seqs_lsh, seqs, wpc,
                    trails, encoded_seq, len, result_seq, aborted >>

Init ==
    /\ ConfInit
    /\ arg_overhead = DefaultOverhead
    /\ enc = NoEnc
    /\ UnitsIdleBut("none")
    /\ PipeInit

Next ==
    \/ \E w \in Workers : Encode(w)
    \/ \E w \in Workers : LshCheckInsert(w)
    \/ \E w \in Workers : ReadCheck(w)
    \/ \E w \in Workers : InsertConsistent(w)
    \/ \E w \in Workers : Send(w)
    \/ Recv

Spec == Init /\ [][Next]_vars

\* encode_file's loop has no bound on trails: from MaxTrails on the loop
\* goes on and the counter of the model stays
EncodeAgain(w) ==
    /\ ~aborted
    /\ wpc[w] = "encode"
    /\ trails[w] >= MaxTrails
    /\ \E r \in encoder_returns[lines[w]] : encoded_seq' = [encoded_seq EXCEPT ![w] = r]
    /\ wpc' = [wpc EXCEPT ![w] = "arrived"]
    /\ UNCHANGED << confVars, enc, unitVars, lines, encoder_returns, seqs_lsh, seqs, len,
                    trails, result_seq, channel, fasta, aborted >>

\* the steps of worker w
WorkerStep(w) ==
    \/ Encode(w) \/ EncodeAgain(w)
    \/ LshCheckInsert(w) \/ ReadCheck(w) \/ InsertConsistent(w)
    \/ Send(w)

NextUnbounded ==
    \/ Next
    \/ \E w \in Workers : EncodeAgain(w)

\* the pipeline with encode_file's loop running on after MaxTrails trails
SpecUnbounded == Init /\ [][NextUnbounded]_vars

(***************************************************************************)
(* Properties of the pipeline.                                              *)
(***************************************************************************)
\* the strands of the list
SeqsSet == {seqs[i] : i \in 1..Len(seqs)}

\* the accepted strands: the index in LSH mode, the list otherwise
Accepted == IF encoding_mode = ModeLsh THEN LshContents(seqs_lsh) ELSE SeqsSet

\* C1: in mixed and naive mode, whatever the interleaving of the workers'
\* read-locked checks and write-locked re-checks, any two strands of the
\* accepted list are at Jaccard distance >= min_dist_to_seqs with k_seqs.
C1_TwoPhaseKeepsDistance ==
    encoding_mode \in {ModeMixed, ModeNaive} =>
        \A i, j \in 1..Len(seqs) :
            i < j => JaccardAtLeast(seqs[i], seqs[j], LshKSeqs,
                                    MinDistToSeqsPercent)

\* a worker that saw the empty list under the read lock has pushed its strand
\* second, after the re-check of the strand pushed meanwhile
C1_Witness ==
    /\ encoding_mode \in {ModeMixed, ModeNaive}
    /\ Len(seqs) = 2
    /\ \E w \in Workers :
           /\ wpc[w] \in {"send", "done"}
           /\ len[w] = 0
           /\ result_seq[w] = seqs[2]

C3_DistanceToSimilarProbes ==
    encoding_mode \in {ModeLsh, ModeMixed} =>
        \A X \in Accepted :
            \A P \in SimilarSeqs(probes_lsh, X) :
                JaccardAtLeast(X, P, LshKProbes, MinDistToProbesPercent)

\* C4: in naive mode every accepted strand is at Jaccard distance
\* >= min_dist_to_probes (k_probes) from every probe of the list and
\* >= min_dist_to_seqs (k_seqs) from every other accepted strand.
C4_NaiveModeChecksEverything ==
    encoding_mode = ModeNaive =>
        \A i \in 1..Len(seqs) :
            /\ \A p \in 1..Len(Probes) :
                   JaccardAtLeast(seqs[i], Probes[p], LshKProbes,
                                  MinDistToProbesPercent)
            /\ \A j \in 1..Len(seqs) :
                   j # i => JaccardAtLeast(seqs[i], seqs[j], LshKSeqs,
                                           MinDistToSeqsPercent)

\* naive mode has accepted the strands of both lines
C4_Witness ==
    /\ encoding_mode = ModeNaive
    /\ Len(seqs) = NumLines
    /\ \A w \in Workers : wpc[w] \in {"send", "done"}

\* C5 (as stated): every accepted strand, header included, in every mode,
\* also when the encoder returned it on exhaustion, has GC content in
\* [0.40, 0.60] and no homopolymer longer than max_hp_len.
C5_AcceptedSatisfyGcHp ==
    \A X \in Accepted : SatisfyGcHpRules(X, DefaultMaxHpLen)

\* C6 (as stated): the i-th entry of the FASTA file is the strand of input
\* line i, whatever the order in which the workers finish.
C6_FastaInLineOrder ==
    \A i \in 1..Len(fasta) : fasta[i].strand = result_seq[i]

ComparedAtAcceptance(w) ==
    IF encoding_mode = ModeLsh
    THEN SimilarSeqs(seqs_lsh, encoded_seq[w].strand)
    ELSE SeqsSet

C11_ListIsAppendOnly ==
    /\ [](\A w \in Workers : wpc[w] = "checked" => len[w] <= Len(seqs))
    /\ [][\/ seqs' = seqs
          \/ \E w \in Workers :
                 /\ wpc[w] = "checked"
                 /\ seqs' = Append(seqs, encoded_seq[w].strand)]_vars

\* a worker holds the length 0 it noted under the read lock while the list
\* has grown to 1
C11_Witness ==
    \E w \in Workers :
        /\ wpc[w] = "checked"
        /\ len[w] = 0
        /\ Len(seqs) = 1

\* the positions of the messages of worker w in the channel
InChannel(w) == {i \in 1..Len(channel) : channel[i][1] = w}

\* the entries of the FASTA file written from messages of worker w
InFasta(w) == {i \in 1..Len(fasta) : fasta[i].caption = w + 1}

AcceptanceAnswers(x) ==
    IF encoding_mode = ModeLsh THEN LshCheck(seqs_lsh, x)
    ELSE {ReadLockedCheck(encoding_mode, x, seqs)}

\* C34 (as stated): under fair scheduling every worker leaves its loop with
\* an accepted strand.  Then a worker that is alone in its loop, all others
\* having sent, so that the accepted strands change no more, has a strand
\* its encoder can return that the distance checks do not reject.
C34_RetryCanSucceed ==
    \A w \in Workers :
        (/\ ~aborted
         /\ wpc[w] = "encode"
         /\ \A v \in Workers \ {w} : wpc[v] = "done")
            => \E r \in encoder_returns[lines[w]] :
                   AcceptanceAnswers(r.strand) # {"fail"}

\* the candidate of worker w is at the required distance from list[from..to]
DistantFromSlice(w, from, to) ==
    \A i \in from..to :
        JaccardAtLeast(encoded_seq[w].strand, seqs[i], LshKSeqs,
                       MinDistToSeqsPercent)

\* C26: in mixed and naive mode a worker that noted the length L under the
\* read lock and meets the length L' under the write lock pushes its strand
\* exactly when the strands at [L, L') are all at the required distance
\* (always when L' = L), and a pushed strand is at the required distance from
\* every strand of the list at the moment of the push: those at [0, L) were
\* compared under the read lock, those at [L, L') under the write lock.
C26_AppendedAfterBothChecks ==
    [][\A w \in Workers :
           (wpc[w] = "checked" /\ wpc'[w] # "checked")
               => /\ encoding_mode \in {ModeMixed, ModeNaive}
                  /\ len[w] <= Len(seqs)
                  /\ (seqs' = Append(seqs, encoded_seq[w].strand))
                         <=> DistantFromSlice(w, len[w] + 1, Len(seqs))
                  /\ (seqs' # seqs) => DistantFromSlice(w, 1, Len(seqs))
                  /\ (seqs' = seqs) => wpc'[w] = "encode"]_vars

\* two workers noted the length 0; one pushed at once, the other pushed
\* second after the re-check of the first one's strand
C26_Witness ==
    \E v, w \in Workers :
        /\ v # w
        /\ len[v] = 0 /\ len[w] = 0
        /\ wpc[v] \in {"send", "done"} /\ wpc[w] \in {"send", "done"}
        /\ seqs = << result_seq[v], result_seq[w] >>

(***************************************************************************)
(* main.rs, main: the parallel build of the probe index.  Every probe is    *)
(* handed to a task of the insert pool, which calls insert on the shared    *)
(* index and sends true; main takes as many messages as there are probes.   *)
(* insert computes the signatures from the permutations, which nobody       *)
(* writes, and then visits the bands in order, changing a band's map while  *)
(* it holds that band's write lock (lsh.rs:54), so a step is one band.      *)
(***************************************************************************)
\* the number of probes, each inserted by a task of its own
NumProducers == 3

Producers == 1..NumProducers

\* the probes of the build: two short strands and a probe of the list
BuildStrands ==
    {<<3, 0, 2, 1, 2, 0>>, <<3, 0, 2, 1, 0, 0>>, Probes[1]}

\* a configuration for the calls studied on their own: no pipeline, no
\* encoder
UnitInit(u) ==
    /\ encoding_mode = ModeNaive
    /\ rng_seed = 1
    /\ arg_packets_per_block = 1
    /\ arg_overhead = DefaultOverhead
    /\ probes_lsh = BuildProbesLsh(encoding_mode, rng_seed)
    /\ enc = NoEnc
    /\ PipeIdle
    /\ UnitsIdleBut(u)

SpecLshBuildInit ==
    /\ UnitInit("build")
    /\ build \in [pc : {"inserting"},
                  lsh : {LshNew(LshKProbes, LshR, LshBands, seed, 4) :
                             seed \in 1..NumSeeds},
                  probe : [Producers -> BuildStrands],
                  done : {[p \in Producers |-> 0]},
                  sent : {[p \in Producers |-> FALSE]},
                  query : {<< >>},
                  similar : {{}}]

\* one round of insert's loop over the bands, by the task of probe p
BuildInsertBand(p) ==
    /\ build.pc = "inserting"
    /\ build.done[p] < Len(build.lsh.bands)
    /\ LET band == build.done[p] + 1
           sig == Signatures(build.lsh, build.probe[p])[band]
       IN  build' = [build EXCEPT
                        !.lsh.bands[band] = BandInsert(@, sig, build.probe[p]),
                        !.done[p] = band]
    /\ UNCHANGED << confVars, enc, pipeVars, fin, sigc, newc, dg, startup, call >>

\* sender_cloned.send(true) after insert has returned
BuildSend(p) ==
    /\ build.pc = "inserting"
    /\ build.done[p] = Len(build.lsh.bands)
    /\ ~build.sent[p]
    /\ build' = [build EXCEPT !.sent[p] = TRUE]
    /\ UNCHANGED << confVars, enc, pipeVars, fin, sigc, newc, dg, startup, call >>

\* main has taken every message; the finished index is asked similar_seqs
BuildSimilar ==
    /\ build.pc = "inserting"
    /\ \A p \in Producers : build.sent[p]
    /\ \E y \in BuildStrands :
           build' = [build EXCEPT !.pc = "queried",
                                  !.query = y,
                                  !.similar = SimilarSeqs(build.lsh, y)]
    /\ UNCHANGED << confVars, enc, pipeVars, fin, sigc, newc, dg, startup, call >>

SpecLshBuildNext ==
    \/ \E p \in Producers : BuildInsertBand(p)
    \/ \E p \in Producers : BuildSend(p)
    \/ BuildSimilar

SpecLshBuild == SpecLshBuildInit /\ [][SpecLshBuildNext]_vars

\* the key of strand x in a band of the index being built
BuildSig(x, band) == Signatures(build.lsh, x)[band]

\* C12: whatever the interleaving of the producers' inserts, the set a band
\* stores under a key is exactly the set of the probes with that key whose
\* insert has passed that band, at every intermediate state and once all
\* have completed: none is lost when two producers meet on a new key, a
\* probe inserted twice is stored once, and nothing else is stored.
C12_ConcurrentInsertsKeepAll ==
    build.pc # "idle" =>
        \A band \in 1..Len(build.lsh.bands) :
            LET map == build.lsh.bands[band]
                passed == {p \in Producers : build.done[p] >= band}
            IN  /\ \A p \in passed : BuildSig(build.probe[p], band) \in DOMAIN map
                /\ \A s \in DOMAIN map :
                       map[s] = {build.probe[p] :
                                     p \in {q \in passed :
                                         BuildSig(build.probe[q], band) = s}}

\* every insert has completed; two producers inserted the same probe and two
\* inserted different probes with the same key in a band
C12_Witness ==
    /\ build.pc = "inserting"
    /\ \A p \in Producers : build.sent[p]
    /\ \E p, q \in Producers : p # q /\ build.probe[p] = build.probe[q]
    /\ \E p, q \in Producers :
           /\ build.probe[p] # build.probe[q]
           /\ \E band \in 1..Len(build.lsh.bands) :
                  BuildSig(build.probe[p], band) = BuildSig(build.probe[q], band)

\* the probes inserted by the build
BuildInserted == {build.probe[p] : p \in Producers}

\* C13: similar_seqs(Y) on the finished index returns exactly the inserted
\* strands that have the key of Y in at least one band, so an inserted
\* strand is returned for itself.
C13_SimilarIsUnionOfBandSets ==
    build.pc = "queried" =>
        /\ build.similar =
               {x \in BuildInserted :
                    \E band \in 1..Len(build.lsh.bands) :
                        BuildSig(x, band) = BuildSig(build.query, band)}
        /\ build.query \in BuildInserted => build.query \in build.similar

\* the query returned itself and a strand that has its key in the second
\* band only
C13_Witness ==
    /\ build.pc = "queried"
    /\ build.query \in build.similar
    /\ \E x \in build.similar :
           /\ x # build.query
           /\ BuildSig(x, 1) # BuildSig(build.query, 1)
           /\ BuildSig(x, 2) = BuildSig(build.query, 2)

(***************************************************************************)
(* main.rs, main and encode_pipeline: the build of the probe index followed *)
(* by the start of the workers.  The insert tasks run whatever main does;   *)
(* main takes probes_count messages from the channel and only then goes on  *)
(* to encode_pipeline, whose workers ask the index for similar_seqs.        *)
(***************************************************************************)
\* a main that goes on one message early
TakeCountLessOne(probes_count) == probes_count - 1

\* receiver.iter().take(probes_count)
TakeCount(probes_count) == probes_count

SpecProbesOnceInit ==
    /\ encoding_mode \in {ModeLsh, ModeMixed}
    /\ rng_seed = 1
    /\ arg_packets_per_block = 1
    /\ arg_overhead = DefaultOverhead
    /\ probes_lsh = BuildProbesLsh(encoding_mode, rng_seed)
    /\ enc = NoEnc
    /\ PipeIdle
    /\ UnitsIdleBut("build")
    /\ build \in [pc : {"taking"},
                  lsh : {LshNew(LshKProbes, LshR, LshBands, seed, 4) :
                             seed \in 1..NumSeeds},
                  probe : [Producers -> BuildStrands],
                  done : {[p \in Producers |-> 0]},
                  sent : {[p \in Producers |-> FALSE]},
                  taken : {0},
                  worker : {[w \in Workers |-> "none"]},
                  similar : {[w \in Workers |-> {}]}]

\* one round of insert's loop over the bands, by the task of probe p
TaskInsertBand(p) ==
    /\ build.done[p] < Len(build.lsh.bands)
    /\ LET band == build.done[p] + 1
           sig == Signatures(build.lsh, build.probe[p])[band]
       IN  build' = [build EXCEPT
                        !.lsh.bands[band] = BandInsert(@, sig, build.probe[p]),
                        !.done[p] = band]
    /\ UNCHANGED << confVars, enc, pipeVars, fin, sigc, newc, dg, startup, call >>

\* sender_cloned.send(true) after insert has returned
TaskSendTrue(p) ==
    /\ build.done[p] = Len(build.lsh.bands)
    /\ ~build.sent[p]
    /\ build' = [build EXCEPT !.sent[p] = TRUE]
    /\ UNCHANGED << confVars, enc, pipeVars, fin, sigc, newc, dg, startup, call >>

\* main takes one message of the channel
MainTake ==
    /\ build.pc = "taking"
    /\ build.taken < TakeCount(NumProducers)
    /\ build.taken < Cardinality({p \in Producers : build.sent[p]})
    /\ build' = [build EXCEPT !.taken = @ + 1]
    /\ UNCHANGED << confVars, enc, pipeVars, fin, sigc, newc, dg, startup, call >>

\* main has taken its messages: encode_pipeline spawns the workers
MainSpawnWorkers ==
    /\ build.pc = "taking"
    /\ build.taken >= TakeCount(NumProducers)
    /\ build' = [build EXCEPT !.pc = "encoding",
                              !.worker = [w \in Workers |-> "spawned"]]
    /\ UNCHANGED << confVars, enc, pipeVars, fin, sigc, newc, dg, startup, call >>

\* a worker's strand rule asks probes_lsh.similar_seqs(seq)
WorkerSimilarSeqs(w) ==
    /\ build.worker[w] = "spawned"
    /\ \E y \in BuildStrands :
           build' = [build EXCEPT !.worker[w] = "asked",
                                  !.similar[w] = SimilarSeqs(build.lsh, y)]
    /\ UNCHANGED << confVars, enc, pipeVars, fin, sigc, newc, dg, startup, call >>

SpecProbesOnceNext ==
    \/ \E p \in Producers : TaskInsertBand(p)
    \/ \E p \in Producers : TaskSendTrue(p)
    \/ MainTake
    \/ MainSpawnWorkers
    \/ \E w \in Workers : WorkerSimilarSeqs(w)

SpecProbesOnce == SpecProbesOnceInit /\ [][SpecProbesOnceNext]_vars

\* C32: in LSH and mixed mode no worker is started before the insert of
\* every probe has passed every band, and from the start of the workers on
\* no step changes the probe index.
C32_ProbeIndexBuiltBeforeWorkers ==
    /\ []((\E w \in Workers : build.worker[w] # "none") =>
              \A p \in Producers :
                  /\ build.done[p] = Len(build.lsh.bands)
                  /\ build.sent[p])
    /\ [][(\E w \in Workers : build.worker[w] # "none") =>
              build'.lsh = build.lsh]_vars

\* a worker has asked the index, which holds two probes under one key
C32_Witness ==
    /\ build.pc = "encoding"
    /\ \E w \in Workers :
           /\ build.worker[w] = "asked"
           /\ Cardinality(build.similar[w]) >= 2

(***************************************************************************)
(* lsh.rs, signatures: the key of one band, built from the band's min-hash  *)
(* values, for two vectors of min-hash values.                              *)
(***************************************************************************)
\* the width r / b of the band
SigBandSize == 2

\* the largest min-hash value drawn
MaxMinHash == 11

SpecSignaturesInit ==
    /\ UnitInit("sigc")
    /\ sigc \in [pc : {"call"},
                 x : [1..SigBandSize -> 0..MaxMinHash],
                 y : [1..SigBandSize -> 0..MaxMinHash],
                 key_x : {<< >>},
                 key_y : {<< >>}]

\* the inner loop of signatures for the band, on both vectors
SignaturesKeys ==
    /\ sigc.pc = "call"
    /\ sigc' = [sigc EXCEPT !.pc = "done",
                            !.key_x = ConcatDecimal(sigc.x, 1, SigBandSize),
                            !.key_y = ConcatDecimal(sigc.y, 1, SigBandSize)]
    /\ UNCHANGED << confVars, enc, pipeVars, fin, build, newc, dg, startup, call >>

SpecSignatures == SpecSignaturesInit /\ [][SignaturesKeys]_vars

\* C14 (as stated): two vectors of min-hash values get the same key in a
\* band if and only if they agree position by position: the concatenation of
\* the decimal strings never gives two different vectors the same key.
C14_SameKeyIffSameMinHashes ==
    sigc.pc = "done" => ((sigc.key_x = sigc.key_y) <=> (sigc.x = sigc.y))

(***************************************************************************)
(* lsh.rs, LSH::new and initial_row_id on machine words.  A usize of 64     *)
(* bits is 32 digits of base 4, least digit first: a multiplication by 4    *)
(* moves every digit up one place and overflows when the top digit was not  *)
(* 0.  An overflow panics in a build with overflow checks (cargo's dev      *)
(* profile) and wraps in a build without (the release profile).             *)
(***************************************************************************)
\* the base-4 digits of a usize
WordDigits == 32

\* 4_usize.pow(k), the wrapped value and whether a multiplication
\* overflowed: k multiplications by 4 move the digit 1 of the word 1 up k
\* places, and out of the word from the 32nd on
WordPow4(k) ==
    [value |-> [i \in 1..WordDigits |-> IF i = k + 1 THEN 1 ELSE 0],
     overflow |-> k >= WordDigits]

\* a < b for words
WordLess(a, b) ==
    \E i \in 1..WordDigits :
        /\ a[i] < b[i]
        /\ \A j \in (i + 1)..WordDigits : a[j] = b[j]

\* initial_row_id: id + order * 4^i for the bases of order > 0.  The term of
\* place i is the one digit order at place i, so the sums never carry; a
\* wrapped 4^i is 0 and leaves id as it is.
InitialRowIdWord(seq) ==
    [value |-> [i \in 1..WordDigits |-> IF i <= Len(seq) THEN seq[i] ELSE 0],
     overflow |-> \E i \in 1..Len(seq) :
                      seq[i] # 0 /\ WordPow4(i - 1).overflow]

\* the largest k, r and b drawn
MaxK == 34
MaxR == 3
MaxB == 2

\* LSH::new(k, r, b) up to the permutations' random draws: a panic, or the
\* index's shape and the size of its k-mer space
LshNewOutcome(k, r, b, overflow_checks) ==
    IF b = 0 THEN [pc |-> "panicked", overflow |-> FALSE]
    ELSE IF r % b # 0 THEN [pc |-> "panicked", overflow |-> FALSE]
    ELSE IF k > 33 THEN [pc |-> "panicked", overflow |-> FALSE]
    ELSE IF WordPow4(k).overflow /\ overflow_checks
         THEN [pc |-> "panicked", overflow |-> TRUE]
    ELSE [pc |-> "built",
          overflow |-> WordPow4(k).overflow,
          k_mers |-> WordPow4(k).value,
          band_size |-> r \div b,
          bands |-> [i \in 1..b |-> << >>],
          permutations |-> r]

\* the k-mers drawn: all A, or one base other than A at the first, the last
\* but one or the last place
KMersDrawn(k) ==
    {[i \in 1..k |-> 0]}
        \cup {[i \in 1..k |-> IF i = place THEN base ELSE 0] :
                  place \in {1, k - 1, k} \cap 1..k, base \in 1..3}

SpecLshNewInit ==
    /\ UnitInit("newc")
    /\ newc \in [pc : {"call"},
                 overflow_checks : BOOLEAN,
                 k : 1..MaxK,
                 r : 0..MaxR,
                 b : 0..MaxB]

LshNewCall ==
    /\ newc.pc = "call"
    /\ newc' = LshNewOutcome(newc.k, newc.r, newc.b, newc.overflow_checks)
                   @@ newc
    /\ UNCHANGED << confVars, enc, pipeVars, fin, build, sigc, dg, startup, call >>

\* initial_row_id on two k-mers of the index's k, as min_hashes calls it
RowIds ==
    /\ newc.pc = "built"
    /\ \E v, w \in KMersDrawn(newc.k) :
           LET id_v == InitialRowIdWord(v)
               id_w == InitialRowIdWord(w)
           IN  IF newc.overflow_checks /\ (id_v.overflow \/ id_w.overflow)
               THEN newc' = [newc EXCEPT !.pc = "panicked", !.overflow = TRUE]
               ELSE newc' = [pc |-> "ids", v |-> v, w |-> w,
                             id_v |-> id_v.value, id_w |-> id_w.value,
                             overflow |-> newc.overflow \/ id_v.overflow
                                              \/ id_w.overflow]
                                @@ newc
    /\ UNCHANGED << confVars, enc, pipeVars, fin, build, sigc, dg, startup, call >>

SpecLshNewNext == LshNewCall \/ RowIds

SpecLshNew == SpecLshNewInit /\ [][SpecLshNewNext]_vars

\* C15 (as stated): LSH::new with r mod b # 0 or k > 33 aborts and produces
\* no index; every other (k, r, b) with b >= 1 yields an index of b bands,
\* r permutations and band width r / b.
C15_NewAbortsOrYieldsShape ==
    (newc.pc # "idle" /\ newc.pc # "call" /\ newc.b >= 1) =>
        IF newc.r % newc.b # 0 \/ newc.k > 33
        THEN newc.pc = "panicked"
        ELSE /\ newc.pc \in {"built", "ids"}
             /\ Len(newc.bands) = newc.b
             /\ newc.permutations = newc.r
             /\ newc.band_size = newc.r \div newc.b

\* C16 (as stated): for every k the constructor's guard lets pass (k <= 33)
\* the size 4^k of the k-mer space and the k-mer identifiers are computed
\* without overflowing the 64-bit word, different k-mers of length k get
\* different identifiers, and every identifier is below 4^k.
C16_KMerIdsFitTheWord ==
    (newc.pc \in {"panicked", "built", "ids"} /\ newc.b >= 1
         /\ newc.r % newc.b = 0 /\ newc.k <= 33) =>
        /\ ~newc.overflow
        /\ newc.pc = "ids" =>
               /\ newc.v # newc.w => newc.id_v # newc.id_w
               /\ WordLess(newc.id_v, newc.k_mers)
               /\ WordLess(newc.id_w, newc.k_mers)

(***************************************************************************)
(* dg_client.rs: the predictor client.  main connects as many channels as   *)
(* there are workers; a worker's dg rule calls dg_arc, which is             *)
(* dg_arc_from_id with from_id 0.  A caller is at "try" (in the loop of     *)
(* try_lock), at "write" (it holds the guard, before write_all) or at       *)
(* "read" (before read_exact); the guard is dropped when the round trip     *)
(* returns.  What the connection answers to a write and to a read is the    *)
(* environment's choice.                                                    *)
(***************************************************************************)
\* the number of channels, which is the number of workers
NumChannels == 2

Channels == 0..(NumChannels - 1)

Callers == 1..NumChannels

\* stream.try_lock() that always hands out a guard
TryLockAlways(lock, ch) == TRUE

\* stream.try_lock() obtains the guard: nobody holds the mutex
TryLock(lock, ch) == lock[ch] = 0

\* a loop that stays at the channel it found locked
NextChannelStays(safe_id) == safe_id

\* safe_id = (safe_id + 1) % self.channels.len()
NextChannel(safe_id) == (safe_id + 1) % NumChannels

\* the from_id a call can be made with
FromIds(entry) == IF entry = "dg_arc" THEN {0} ELSE 0..NumChannels

SpecDgInit ==
    /\ UnitInit("dg")
    /\ dg \in [use_dg_server : BOOLEAN,
               entry : {"dg_arc", "dg_arc_from_id"},
               lock : {[ch \in Channels |-> 0]},
               pc : {[c \in Callers |-> "idle"]},
               from_id : {[c \in Callers |-> 0]},
               safe_id : {[c \in Callers |-> 0]},
               write_err : {[c \in Callers |-> FALSE]},
               read_err : {[c \in Callers |-> FALSE]},
               result : {[c \in Callers |-> "none"]}]

\* main.rs dg_arc on a client, entering dg_arc_from_id: safe_id = from_id % N
DgCall(c) ==
    /\ dg.use_dg_server
    /\ dg.pc[c] \in {"idle", "returned"}
    /\ \E f \in FromIds(dg.entry) :
           dg' = [dg EXCEPT !.pc[c] = "try",
                            !.from_id[c] = f,
                            !.safe_id[c] = f % NumChannels,
                            !.write_err[c] = FALSE,
                            !.read_err[c] = FALSE,
                            !.result[c] = "none"]
    /\ UNCHANGED << confVars, enc, pipeVars, fin, build, sigc, newc, startup, call >>

\* main.rs dg_arc without a client: 0_f32
DgNoServer(c) ==
    /\ ~dg.use_dg_server
    /\ dg.pc[c] \in {"idle", "returned"}
    /\ dg' = [dg EXCEPT !.pc[c] = "returned", !.result[c] = "0.0"]
    /\ UNCHANGED << confVars, enc, pipeVars, fin, build, sigc, newc, startup, call >>

\* one round of the loop of dg_arc_from_id
DgTryLock(c) ==
    /\ dg.pc[c] = "try"
    /\ IF TryLock(dg.lock, dg.safe_id[c])
       THEN dg' = [dg EXCEPT !.lock[dg.safe_id[c]] = c, !.pc[c] = "write"]
       ELSE dg' = [dg EXCEPT !.safe_id[c] = NextChannel(@)]
    /\ UNCHANGED << confVars, enc, pipeVars, fin, build, sigc, newc, startup, call >>

\* locked.write_all(...), its result dropped, and flush, which does nothing
\* on a TcpStream
DgWrite(c) ==
    /\ dg.pc[c] = "write"
    /\ \E err \in BOOLEAN :
           dg' = [dg EXCEPT !.pc[c] = "read", !.write_err[c] = err]
    /\ UNCHANGED << confVars, enc, pipeVars, fin, build, sigc, newc, startup, call >>

\* locked.read_exact(&mut buffer), the return, and the drop of the guard
DgRead(c) ==
    /\ dg.pc[c] = "read"
    /\ \E err \in BOOLEAN :
           dg' = [dg EXCEPT !.pc[c] = "returned",
                            !.read_err[c] = err,
                            !.result[c] = IF err THEN "0.0" ELSE "dg",
                            !.lock[dg.safe_id[c]] = 0]
    /\ UNCHANGED << confVars, enc, pipeVars, fin, build, sigc, newc, startup, call >>

SpecDgNext ==
    \/ \E c \in Callers : DgCall(c)
    \/ \E c \in Callers : DgNoServer(c)
    \/ \E c \in Callers : DgTryLock(c)
    \/ \E c \in Callers : DgWrite(c)
    \/ \E c \in Callers : DgRead(c)

SpecDg == SpecDgInit /\ [][SpecDgNext]_vars

\* every caller's thread keeps running: its loop goes on, its round trip is
\* answered; nobody is made to call again
SpecDgFair ==
    /\ SpecDg
    /\ \A c \in Callers :
           /\ WF_vars(DgTryLock(c))
           /\ WF_vars(DgWrite(c))
           /\ WF_vars(DgRead(c))

\* the callers in a round trip on a channel
InRoundTrip(ch) ==
    {c \in Callers : dg.pc[c] \in {"write", "read"} /\ dg.safe_id[c] = ch}

\* C17: at every moment at most one round trip is in flight on a channel,
\* and the caller in it holds the channel's lock from before its write
\* until after its read.
C17_OneRoundTripPerChannel ==
    \A ch \in Channels :
        /\ Cardinality(InRoundTrip(ch)) <= 1
        /\ \A c \in InRoundTrip(ch) : dg.lock[ch] = c

\* two callers are in round trips at once, on different channels
C17_Witness ==
    \E c, d \in Callers :
        /\ c # d
        /\ dg.pc[c] = "read"
        /\ dg.pc[d] \in {"write", "read"}
        /\ dg.safe_id[c] # dg.safe_id[d]

\* a step of caller c in its loop follows the code's order of probing: a
\* call starts at from_id mod N, a failed attempt moves one channel on,
\* and the channel used is the one the caller stood at when the lock was free
ProbesCyclically(c) ==
    /\ (dg.pc[c] # "try" /\ dg'.pc[c] = "try") =>
           dg'.safe_id[c] = dg'.from_id[c] % NumChannels
    /\ (dg.pc[c] = "try" /\ dg'.pc[c] = "try" /\ dg'.safe_id[c] # dg.safe_id[c]) =>
           /\ dg.lock[dg.safe_id[c]] # 0
           /\ dg'.safe_id[c] = (dg.safe_id[c] + 1) % NumChannels
    /\ (dg.pc[c] = "try" /\ dg'.pc[c] = "write") =>
           /\ dg.lock[dg.safe_id[c]] = 0
           /\ dg'.safe_id[c] = dg.safe_id[c]
           /\ dg'.lock[dg.safe_id[c]] = c

\* C18: a call probes the channels cyclically from from_id mod N and uses
\* the first lock it obtains, and every call eventually obtains a channel.
C18_EveryCallObtainsAChannel ==
    /\ [][\A c \in Callers : ProbesCyclically(c)]_vars
    /\ \A c \in Callers : (dg.pc[c] = "try") ~> (dg.pc[c] = "write")

\* C18 for the calls the program makes, which all start at channel 0
C18_CallFromZeroObtainsAChannel ==
    /\ [][\A c \in Callers : ProbesCyclically(c)]_vars
    /\ \A c \in Callers :
           (dg.entry = "dg_arc" /\ dg.pc[c] = "try") ~> (dg.pc[c] = "write")

\* a caller through dg_arc found channel 0 locked, moved on and obtained
\* channel 1
C18_Witness ==
    \E c \in Callers :
        /\ dg.entry = "dg_arc"
        /\ dg.pc[c] = "write"
        /\ dg.safe_id[c] = 1
        /\ dg.lock[0] # 0

\* C19: a call whose write or whose read failed returns 0.0 and has released
\* its lock, and every call of a run without a predictor returns 0.0.
C19_IoErrorYieldsZero ==
    \A c \in Callers :
        dg.pc[c] = "returned" =>
            /\ (dg.write_err[c] \/ dg.read_err[c]) => dg.result[c] = "0.0"
            /\ ~dg.use_dg_server => dg.result[c] = "0.0"
            /\ \A ch \in Channels : dg.lock[ch] # c

(***************************************************************************)
(* arg_parser.rs and the start of main.  A command-line argument is the    *)
(* sequence of its pieces of text, an "=" being a piece of its own:        *)
(* << "lsh_r_seqs", "=", "3" >> is lsh_r_seqs=3.  A key or a value is the   *)
(* sequence of the pieces between two "=".                                  *)
(***************************************************************************)
\* the number of arguments on the command line
MaxArgs == 3

DefaultLshKProbes == 4
DefaultLshRProbes == 200
DefaultLshBProbes == 20
DefaultLshKSeqs == 5
DefaultLshRSeqs == 200
DefaultLshBSeqs == 20
DefaultEncodingModeStr == << "lsh" >>

StartupArgs ==
    {<< "encoding_mode", "=", "naive" >>, << "encoding_mode", "=", "mixed" >>,
     << "encoding_mode", "=", "lsh" >>, << "encoding_mode", "=", "fast" >>,
     << "lsh_r_probes", "=", "3" >>, << "lsh_r_seqs", "=", "3" >>,
     << "lsh_r_seqs", "=", "0" >>, << "lsh_r_seqs", "=", "2o" >>,
     << "lsh_b_seqs", "=", "0" >>, << "lsh_b_seqs", "=", "3" >>,
     << "lsh_k_seqs", "=", "34" >>, << "lsh_k_probes", "=", "34" >>,
     << "use_dg_server", "=", "false" >>, << "approve", "=", "no" >>,
     << "approve" >>, << "lsh_r_seqs", "=", "3", "=", "3" >>}

\* arg.split("="): the texts between the "=", empty ones included
RECURSIVE SplitEquals(_)
SplitEquals(arg) ==
    IF arg = << >> THEN << << >> >>
    ELSE IF Head(arg) = "="
         THEN << << >> >> \o SplitEquals(Tail(arg))
    ELSE << << Head(arg) >> \o SplitEquals(Tail(arg))[1] >>
             \o Tail(SplitEquals(Tail(arg)))

\* the loop of ArgsParser::from
RECURSIVE ArgsParserFromLoop(_, _)
ArgsParserFromLoop(args, mappings) ==
    IF args = << >> THEN [panicked |-> FALSE, mappings |-> mappings]
    ELSE IF Len(SplitEquals(Head(args))) = 2
         THEN IF SplitEquals(Head(args))[1] \in DOMAIN mappings
              THEN [panicked |-> TRUE, mappings |-> mappings]
              ELSE ArgsParserFromLoop(Tail(args),
                       (SplitEquals(Head(args))[1] :> SplitEquals(Head(args))[2])
                           @@ mappings)
    ELSE [panicked |-> TRUE, mappings |-> mappings]

ArgsParserFrom(args) == ArgsParserFromLoop(args, << >>)

\* the texts str::parse::<usize> reads as a number, among those of StartupArgs
UsizeTexts == ("0" :> 0) @@ ("3" :> 3) @@ ("34" :> 34)

\* v.parse() for a usize
ParseUsize(v) ==
    IF Len(v) = 1 /\ v[1] \in DOMAIN UsizeTexts
    THEN [ok |-> TRUE, value |-> UsizeTexts[v[1]]]
    ELSE [ok |-> FALSE, value |-> 0]

\* ArgsParser::get_as for a usize
GetAs(mappings, name, default) ==
    IF << name >> \in DOMAIN mappings
    THEN IF ParseUsize(mappings[<< name >>]).ok
         THEN ParseUsize(mappings[<< name >>]).value
         ELSE default
    ELSE default

\* ArgsParser::get_as_bool
GetAsBool(mappings, name, default) ==
    IF << name >> \in DOMAIN mappings
    THEN mappings[<< name >>] \in {<< "1" >>, << "true" >>, << "yes" >>, << "y" >>}
    ELSE default

\* ArgsParser::get_or_else
GetOrElse(mappings, name, or_else) ==
    IF << name >> \in DOMAIN mappings THEN mappings[<< name >>] ELSE or_else

\* an extract_encoding_mode that takes an unknown mode for naive
ExtractEncodingModeOrNaive(arg) ==
    IF arg = << "lsh" >> THEN [panicked |-> FALSE, mode |-> ModeLsh]
    ELSE IF arg = << "mixed" >> THEN [panicked |-> FALSE, mode |-> ModeMixed]
    ELSE [panicked |-> FALSE, mode |-> ModeNaive]

\* extract_encoding_mode
ExtractEncodingMode(arg) ==
    IF arg = << "lsh" >> THEN [panicked |-> FALSE, mode |-> ModeLsh]
    ELSE IF arg = << "naive" >> THEN [panicked |-> FALSE, mode |-> ModeNaive]
    ELSE IF arg = << "mixed" >> THEN [panicked |-> FALSE, mode |-> ModeMixed]
    ELSE [panicked |-> TRUE, mode |-> ModeNaive]

\* the command lines: up to MaxArgs arguments
CommandLines == UNION {[1..n -> StartupArgs] : n \in 0..MaxArgs}

SpecStartupInit ==
    /\ UnitInit("startup")
    /\ startup \in [pc : {"args"},
                    args : CommandLines,
                    mappings : {<< >>},
                    encoding_mode_str : {<< >>},
                    encoding_mode : {ModeNaive},
                    use_dg_server : {FALSE},
                    approve : {FALSE},
                    lsh_k_probes : {0}, lsh_r_probes : {0}, lsh_b_probes : {0},
                    lsh_k_seqs : {0}, lsh_r_seqs : {0}, lsh_b_seqs : {0},
                    file_removed : {FALSE},
                    spawned : {FALSE},
                    at : {"none"}]

\* a panic ends the program where it stands
Panic == [startup EXCEPT !.pc = "panicked", !.at = startup.pc]

\* main, lines 72 to 96: the arguments are parsed and the parameters read
StartupParseArgs ==
    /\ startup.pc = "args"
    /\ LET parsed == ArgsParserFrom(startup.args)
           m == parsed.mappings
       IN startup' =
              IF parsed.panicked THEN Panic
              ELSE [startup EXCEPT
                       !.pc = "mode",
                       !.mappings = m,
                       !.encoding_mode_str =
                           GetOrElse(m, "encoding_mode", DefaultEncodingModeStr),
                       !.use_dg_server = GetAsBool(m, "use_dg_server", TRUE),
                       !.approve = GetAsBool(m, "approve", TRUE),
                       !.lsh_k_probes = GetAs(m, "lsh_k_probes", DefaultLshKProbes),
                       !.lsh_r_probes = GetAs(m, "lsh_r_probes", DefaultLshRProbes),
                       !.lsh_b_probes = GetAs(m, "lsh_b_probes", DefaultLshBProbes),
                       !.lsh_k_seqs = GetAs(m, "lsh_k_seqs", DefaultLshKSeqs),
                       !.lsh_r_seqs = GetAs(m, "lsh_r_seqs", DefaultLshRSeqs),
                       !.lsh_b_seqs = GetAs(m, "lsh_b_seqs", DefaultLshBSeqs)]
    /\ UNCHANGED << confVars, enc, pipeVars, fin, build, sigc, newc, dg, call >>

\* main, line 99
StartupExtractMode ==
    /\ startup.pc = "mode"
    /\ LET extracted == ExtractEncodingMode(startup.encoding_mode_str)
       IN startup' =
              IF extracted.panicked THEN Panic
              ELSE [startup EXCEPT !.pc = "approve",
                                   !.encoding_mode = extracted.mode]
    /\ UNCHANGED << confVars, enc, pipeVars, fin, build, sigc, newc, dg, call >>

\* main, lines 124 to 128: the user approves the parameters or does not
StartupApprove ==
    /\ startup.pc = "approve"
    /\ \E approved \in BOOLEAN :
           startup' =
               IF startup.approve /\ ~approved
               THEN [startup EXCEPT !.pc = "terminated"]
               ELSE [startup EXCEPT !.pc = "connect"]
    /\ UNCHANGED << confVars, enc, pipeVars, fin, build, sigc, newc, dg, call >>

\* main, lines 131 to 137: the predictor's channels are connected or are not
StartupConnect ==
    /\ startup.pc = "connect"
    /\ \E connected \in BOOLEAN :
           startup' =
               IF startup.use_dg_server /\ ~connected
               THEN Panic
               ELSE [startup EXCEPT !.pc = "lsh_initial"]
    /\ UNCHANGED << confVars, enc, pipeVars, fin, build, sigc, newc, dg, call >>

\* main, lines 146 and 147: LSH::new(k, 1, 1) for both indexes
StartupInitialLsh ==
    /\ startup.pc = "lsh_initial"
    /\ \E overflow_checks \in BOOLEAN :
           startup' =
               IF \/ LshNewOutcome(startup.lsh_k_probes, 1, 1,
                                   overflow_checks).pc = "panicked"
                  \/ LshNewOutcome(startup.lsh_k_seqs, 1, 1,
                                   overflow_checks).pc = "panicked"
               THEN Panic
               ELSE [startup EXCEPT !.pc = "lsh_probes"]
    /\ UNCHANGED << confVars, enc, pipeVars, fin, build, sigc, newc, dg, call >>

\* main, lines 149 to 168: the index of the probes in the modes lsh and mixed
StartupProbesLsh ==
    /\ startup.pc = "lsh_probes"
    /\ \E overflow_checks \in BOOLEAN :
           startup' =
               IF /\ startup.encoding_mode \in {ModeLsh, ModeMixed}
                  /\ LshNewOutcome(startup.lsh_k_probes, startup.lsh_r_probes,
                                   startup.lsh_b_probes,
                                   overflow_checks).pc = "panicked"
               THEN Panic
               ELSE [startup EXCEPT !.pc = "lsh_seqs"]
    /\ UNCHANGED << confVars, enc, pipeVars, fin, build, sigc, newc, dg, call >>

\* main, lines 169 to 171: the index of the strands in the mode lsh
StartupSeqsLsh ==
    /\ startup.pc = "lsh_seqs"
    /\ \E overflow_checks \in BOOLEAN :
           startup' =
               IF /\ startup.encoding_mode = ModeLsh
                  /\ LshNewOutcome(startup.lsh_k_seqs, startup.lsh_r_seqs,
                                   startup.lsh_b_seqs,
                                   overflow_checks).pc = "panicked"
               THEN Panic
               ELSE [startup EXCEPT !.pc = "remove_file"]
    /\ UNCHANGED << confVars, enc, pipeVars, fin, build, sigc, newc, dg, call >>

\* main, lines 175 to 179: the FASTA file is removed and opened
StartupRemoveFile ==
    /\ startup.pc = "remove_file"
    /\ startup' = [startup EXCEPT !.pc = "spawn", !.file_removed = TRUE]
    /\ UNCHANGED << confVars, enc, pipeVars, fin, build, sigc, newc, dg, call >>

\* main, line 180: encode_pipeline starts the workers
StartupSpawn ==
    /\ startup.pc = "spawn"
    /\ startup' = [startup EXCEPT !.pc = "encoding", !.spawned = TRUE]
    /\ UNCHANGED << confVars, enc, pipeVars, fin, build, sigc, newc, dg, call >>

SpecStartupNext ==
    \/ StartupParseArgs
    \/ StartupExtractMode
    \/ StartupApprove
    \/ StartupConnect
    \/ StartupInitialLsh
    \/ StartupProbesLsh
    \/ StartupSeqsLsh
    \/ StartupRemoveFile
    \/ StartupSpawn

SpecStartup == SpecStartupInit /\ [][SpecStartupNext]_vars

\* C20: whenever the FASTA file has been removed or the workers have been
\* started, the command line had no configuration error: every argument is
\* one key=value, no key comes twice, the mode is a known one, every number
\* parses, and for both indexes k <= 33 and r is a positive multiple of b,
\* whatever the mode.
C20_ConfigurationErrorsAreFatal ==
    (startup.file_removed \/ startup.spawned) =>
        LET args == startup.args
            numbers == {<< "lsh_k_probes" >>, << "lsh_r_probes" >>,
                        << "lsh_b_probes" >>, << "lsh_k_seqs" >>,
                        << "lsh_r_seqs" >>, << "lsh_b_seqs" >>}
        IN /\ \A i \in DOMAIN args : Len(SplitEquals(args[i])) = 2
           /\ \A i, j \in DOMAIN args :
                  i # j => SplitEquals(args[i])[1] # SplitEquals(args[j])[1]
           /\ startup.encoding_mode_str \in {<< "lsh" >>, << "naive" >>, << "mixed" >>}
           /\ \A i \in DOMAIN args :
                  SplitEquals(args[i])[1] \in numbers =>
                      ParseUsize(SplitEquals(args[i])[2]).ok
           /\ startup.lsh_k_probes <= 33
           /\ startup.lsh_k_seqs <= 33
           /\ startup.lsh_b_probes > 0
           /\ startup.lsh_r_probes > 0
           /\ startup.lsh_r_probes % startup.lsh_b_probes = 0
           /\ startup.lsh_b_seqs > 0
           /\ startup.lsh_r_seqs > 0
           /\ startup.lsh_r_seqs % startup.lsh_b_seqs = 0

\* C20 for the errors the code looks for: whenever the FASTA file has been
\* removed or the workers have been started, every argument is one
\* key=value, no key comes twice, the mode is a known one, both k are at
\* most 33, and r is a multiple of b (b not 0) for the index of the probes
\* in the modes lsh and mixed and for the index of the strands in the mode lsh.
C20_CheckedErrorsAreFatal ==
    (startup.file_removed \/ startup.spawned) =>
        LET args == startup.args
        IN /\ \A i \in DOMAIN args : Len(SplitEquals(args[i])) = 2
           /\ \A i, j \in DOMAIN args :
                  i # j => SplitEquals(args[i])[1] # SplitEquals(args[j])[1]
           /\ startup.encoding_mode_str \in {<< "lsh" >>, << "naive" >>, << "mixed" >>}
           /\ startup.lsh_k_probes <= 33
           /\ startup.lsh_k_seqs <= 33
           /\ startup.encoding_mode \in {ModeLsh, ModeMixed} =>
                  /\ startup.lsh_b_probes # 0
                  /\ startup.lsh_r_probes % startup.lsh_b_probes = 0
           /\ startup.encoding_mode = ModeLsh =>
                  /\ startup.lsh_b_seqs # 0
                  /\ startup.lsh_r_seqs % startup.lsh_b_seqs = 0

\* the program stopped at the index of the strands in the mode lsh, where
\* r = 3 is no multiple of b = 20, the file untouched and no worker started
C20_Witness ==
    /\ startup.pc = "panicked"
    /\ startup.at = "lsh_seqs"
    /\ startup.encoding_mode = ModeLsh
    /\ startup.lsh_r_seqs = 3
    /\ startup.lsh_b_seqs = DefaultLshBSeqs
    /\ ~startup.file_removed
    /\ ~startup.spawned

(***************************************************************************)
(* base_sequence.rs: search_count_of, step by step.  A call is at "call"   *)
(* before the test of the lengths, at "while" at the head of the loop, and  *)
(* "returned" with its result.                                              *)
(***************************************************************************)
\* the longest source and the longest needle
MaxSourceLen == 6
MaxNeedleLen == 2

\* the bases the strands are made of: A and C
SearchBases == {0, 1}

StrandsUpTo(bases, n) == UNION {[1..l -> bases] : l \in 0..n}

SpecSearchCountInit ==
    /\ UnitInit("call")
    /\ call \in [pc : {"call"},
                 source : StrandsUpTo(SearchBases, MaxSourceLen),
                 search_seq : StrandsUpTo(SearchBases, MaxNeedleLen) \ {<< >>},
                 consecutive : BOOLEAN,
                 start : {0}, end : {0}, count : {0},
                 max_consecutive_count : {0}, consecutive_count : {0},
                 result : {0}]

\* the test of the lengths and the initial values of the locals
SearchCountEnter ==
    /\ call.pc = "call"
    /\ call' = IF Len(call.source) < Len(call.search_seq)
               THEN [call EXCEPT !.pc = "returned", !.result = 0]
               ELSE [call EXCEPT !.pc = "while",
                                 !.start = 0,
                                 !.end = Len(call.search_seq)]
    /\ UNCHANGED << confVars, enc, pipeVars, fin, build, sigc, newc, dg, startup >>

\* while end < m_slice.len()
WhileTest(end, length) == end < length

\* one round of the loop: the window source[start..end] against the needle
SearchCountWhile ==
    /\ call.pc = "while"
    /\ WhileTest(call.end, Len(call.source))
    /\ LET n == Len(call.search_seq)
           hit == SubSeq(call.source, call.start + 1, call.end) = call.search_seq
           cc == IF hit THEN call.consecutive_count + 1 ELSE 0
       IN call' = [call EXCEPT
                      !.count = IF hit THEN @ + 1 ELSE @,
                      !.consecutive_count = cc,
                      !.start = IF hit THEN @ + n ELSE @ + 1,
                      !.end = IF hit THEN @ + n ELSE @ + 1,
                      !.max_consecutive_count = Max(@, cc)]
    /\ UNCHANGED << confVars, enc, pipeVars, fin, build, sigc, newc, dg, startup >>

\* the loop is left and the result chosen
SearchCountReturn ==
    /\ call.pc = "while"
    /\ ~WhileTest(call.end, Len(call.source))
    /\ call' = [call EXCEPT
                   !.pc = "returned",
                   !.result = IF call.consecutive
                              THEN call.max_consecutive_count
                              ELSE call.count]
    /\ UNCHANGED << confVars, enc, pipeVars, fin, build, sigc, newc, dg, startup >>

SpecSearchCountNext ==
    \/ SearchCountEnter
    \/ SearchCountWhile
    \/ SearchCountReturn

SpecSearchCount == SpecSearchCountInit /\ [][SpecSearchCountNext]_vars

\* the calls with every needle, the empty one included
SpecSearchAnyInit ==
    /\ UnitInit("call")
    /\ call \in [pc : {"call"},
                 source : StrandsUpTo(SearchBases, MaxSourceLen),
                 search_seq : StrandsUpTo(SearchBases, MaxNeedleLen),
                 consecutive : BOOLEAN,
                 start : {0}, end : {0}, count : {0},
                 max_consecutive_count : {0}, consecutive_count : {0},
                 result : {0}]

\* a round of the loop as long as count has not passed the length of the
\* source, which no scan that moves its window can do
SearchCountWhileAny ==
    /\ call.count <= Len(call.source)
    /\ SearchCountWhile

SpecSearchAnyNext ==
    \/ SearchCountEnter
    \/ SearchCountWhileAny
    \/ SearchCountReturn

SpecSearchAny == SpecSearchAnyInit /\ [][SpecSearchAnyNext]_vars

\* C39 (as stated): every round of the loop moves the window forward, so the
\* loop ends for every source and every needle, the empty needle included.
C39_WindowAdvances ==
    [][call.pc = "while" /\ call'.pc = "while"
           => call'.end > call.end /\ call'.start > call.start]_vars

\* C21: a returned call gives 0 for a needle longer than the source, and
\* otherwise the count of the scan that goes over every window up to the one
\* ending at the last base, by the needle's length after a hit and by 1
\* after a miss: the number of hits, or with consecutive the longest run of
\* hits one after the other (ACACAC, AC, consecutive: 3).
C21_SearchCountScansEveryWindow ==
    call.pc = "returned" =>
        LET source == call.source
            needle == call.search_seq
            n == Len(needle)
            RECURSIVE Scan(_, _, _, _)
            Scan(start, run, best, hits) ==
                IF start + n > Len(source)
                THEN [hits |-> hits, best |-> best]
                ELSE IF SubSeq(source, start + 1, start + n) = needle
                     THEN Scan(start + n, run + 1, Max(best, run + 1), hits + 1)
                     ELSE Scan(start + 1, 0, best, hits)
        IN call.result =
               IF Len(source) < n THEN 0
               ELSE IF call.consecutive THEN Scan(0, 0, 0, 0).best
               ELSE Scan(0, 0, 0, 0).hits

(***************************************************************************)
(* base_sequence.rs: longest_hp on its own                                  *)
(***************************************************************************)
\* the longest strand given to longest_hp
MaxRunStrandLen == 4

Bases == 0..3

SpecLongestHpInit ==
    /\ UnitInit("call")
    /\ call \in [pc : {"call"},
                 s : StrandsUpTo(Bases, MaxRunStrandLen),
                 result : {0}]

LongestHpCall ==
    /\ call.pc = "call"
    /\ call' = [call EXCEPT !.pc = "returned", !.result = LongestHp(call.s)]
    /\ UNCHANGED << confVars, enc, pipeVars, fin, build, sigc, newc, dg, startup >>

SpecLongestHp == SpecLongestHpInit /\ [][LongestHpCall]_vars

\* C22: the result of longest_hp is the length of the longest run of equal
\* adjacent bases of the strand, which is at least 1 for a strand that is
\* not empty and 0 for the empty strand.
C22_LongestHpIsLongestRun ==
    call.pc = "returned" =>
        LET s == call.s
            runs == {l \in 0..Len(s) :
                        \E i \in 1..(Len(s) + 1) :
                            /\ i + l - 1 <= Len(s)
                            /\ \A j \in i..(i + l - 1) : s[j] = s[i]}
        IN /\ call.result = SetMax(runs)
           /\ Len(s) > 0 => call.result >= 1
           /\ Len(s) = 0 => call.result = 0

(***************************************************************************)
(* base_sequence.rs: edit_distance_arc calling levenshtein_distance_arc    *)
(* with max_len = max(self.len(), to.len()), row by row.  A call is at      *)
(* "call" before the tests for an empty strand, at "for" at the head of the *)
(* loop over the bases of self (i of them done), and "returned"; early      *)
(* says that the return was the one inside the loop.                        *)
(***************************************************************************)
\* the longest strand given to the edit distance
MaxLevLen == 3

SpecLevenshteinInit ==
    /\ UnitInit("call")
    /\ call \in [pc : {"call"},
                 self : StrandsUpTo(SearchBases, MaxLevLen),
                 seq : StrandsUpTo(SearchBases, MaxLevLen),
                 max_len : {0}, i : {0}, v0 : {<< >>},
                 early : {FALSE}, result : {0}]

\* the two tests for an empty strand, and v0 = 0..seq.len()
LevenshteinEnter ==
    /\ call.pc = "call"
    /\ LET max_len == Max(Len(call.self), Len(call.seq))
       IN call' =
              IF Len(call.self) = 0
              THEN [call EXCEPT !.pc = "returned", !.max_len = max_len,
                                !.result = Len(call.seq)]
              ELSE IF Len(call.seq) = 0
              THEN [call EXCEPT !.pc = "returned", !.max_len = max_len,
                                !.result = Len(call.self)]
              ELSE [call EXCEPT !.pc = "for", !.max_len = max_len, !.i = 0,
                                !.v0 = [j \in 1..(Len(call.seq) + 1) |-> j - 1]]
    /\ UNCHANGED << confVars, enc, pipeVars, fin, build, sigc, newc, dg, startup >>

\* v1 of the row of self[i] (i counted from 0), given as the sequence of
\* v1[0..seq.len()], built from v1[0] = i + 1 by the inner loop; v1 holds
\* v1[0..j] when the loop is about to do j (counted from 0)
RECURSIVE LevenshteinRow(_, _, _, _, _)
LevenshteinRow(self, seq, i, v0, v1) ==
    IF Len(v1) = Len(seq) + 1 THEN v1
    ELSE LevenshteinRow(self, seq, i, v0,
             Append(v1,
                 Min(v1[Len(v1)] + 1,
                     Min(v0[Len(v1) + 1] + 1,
                         v0[Len(v1)]
                             + (IF self[i + 1] = seq[Len(v1)] THEN 0 ELSE 1)))))

\* an exit taken already when twice the row's minimum reaches max_len
EarlyExitAtHalf(min_v1, max_len) == 2 * min_v1 >= max_len

\* if min_v1 >= max_len
EarlyExit(min_v1, max_len) == min_v1 >= max_len

\* one round of the loop over the bases of self
LevenshteinFor ==
    /\ call.pc = "for"
    /\ call.i < Len(call.self)
    /\ LET v1 == LevenshteinRow(call.self, call.seq, call.i, call.v0,
                                << call.i + 1 >>)
           min_v1 == SetMin({v1[j] : j \in DOMAIN v1})
       IN call' =
              IF EarlyExit(min_v1, call.max_len)
              THEN [call EXCEPT !.pc = "returned", !.early = TRUE,
                                !.result = call.max_len]
              ELSE [call EXCEPT !.i = @ + 1, !.v0 = v1]
    /\ UNCHANGED << confVars, enc, pipeVars, fin, build, sigc, newc, dg, startup >>

\* the loop is done: v0[seq.len()]
LevenshteinReturn ==
    /\ call.pc = "for"
    /\ call.i = Len(call.self)
    /\ call' = [call EXCEPT !.pc = "returned",
                            !.result = call.v0[Len(call.seq) + 1]]
    /\ UNCHANGED << confVars, enc, pipeVars, fin, build, sigc, newc, dg, startup >>

SpecLevenshteinNext ==
    \/ LevenshteinEnter
    \/ LevenshteinFor
    \/ LevenshteinReturn

SpecLevenshtein == SpecLevenshteinInit /\ [][SpecLevenshteinNext]_vars

\* C23: a returned call gives the Levenshtein distance of the two strands
\* (the least number of insertions, deletions and substitutions), whether
\* it left the loop early or not, and it left early only when that distance
\* is at least max_len = max(len s, len t).
C23_EarlyExitKeepsLevenshtein ==
    call.pc = "returned" =>
        LET s == call.self
            t == call.seq
            RECURSIVE Distance(_, _)
            Distance(n, m) ==
                IF n = 0 THEN m
                ELSE IF m = 0 THEN n
                ELSE IF s[n] = t[m] THEN Distance(n - 1, m - 1)
                ELSE 1 + Min(Distance(n - 1, m - 1),
                             Min(Distance(n - 1, m), Distance(n, m - 1)))
        IN /\ call.result = Distance(Len(s), Len(t))
           /\ call.early => Distance(Len(s), Len(t)) >= Max(Len(s), Len(t))

\* a call on AAA and CC left the loop early, in its last row, with 3
C23_Witness ==
    /\ call.pc = "returned"
    /\ call.early
    /\ call.self = << 0, 0, 0 >>
    /\ call.seq = << 1, 1 >>
    /\ call.i = 2
    /\ call.result = 3

(***************************************************************************)
(* pseudo_permutation.rs: apply on machine words.  A usize of 64 bits is    *)
(* 8 limbs of 8 bits, least limb first; the exact value of a * x + b is     *)
(* kept on 16 limbs.  It overflows the word when one of the upper 8 limbs   *)
(* is not 0: the call then panics in a build with overflow checks and goes  *)
(* on with the lower 8 limbs in a build without.                            *)
(***************************************************************************)
LimbBase == 256
WordLimbs == 8
WideLimbs == 16

\* the 16 limbs of f, every one of them computed
Limbs(f) ==
    << f[1], f[2], f[3], f[4], f[5], f[6], f[7], f[8],
       f[9], f[10], f[11], f[12], f[13], f[14], f[15], f[16] >>

\* the limbs of a number below 2^31
ToLimbs(n) ==
    Limbs([i \in 1..WideLimbs |->
              IF i = 1 THEN n % LimbBase
              ELSE IF i = 2 THEN (n \div LimbBase) % LimbBase
              ELSE IF i = 3 THEN (n \div (LimbBase * LimbBase)) % LimbBase
              ELSE IF i = 4
                   THEN (n \div (LimbBase * LimbBase * LimbBase)) % LimbBase
              ELSE 0])

\* a + b: a carry comes into limb i from the nearest limb below whose sum
\* is not LimbBase - 1, when that sum is LimbBase or more
LimbsAdd(a, b) ==
    Limbs([i \in 1..WideLimbs |->
              (a[i] + b[i]
                  + (IF \E j \in 1..(i - 1) :
                            /\ a[j] + b[j] >= LimbBase
                            /\ \A k \in (j + 1)..(i - 1) :
                                   a[k] + b[k] = LimbBase - 1
                     THEN 1 ELSE 0)) % LimbBase])

\* a - b for a >= b: limb i is borrowed from by the nearest limb below
\* where a and b differ, when a's is the smaller there
LimbsSub(a, b) ==
    Limbs([i \in 1..WideLimbs |->
              (a[i] - b[i] + LimbBase
                  - (IF \E j \in 1..(i - 1) :
                            /\ a[j] < b[j]
                            /\ \A k \in (j + 1)..(i - 1) : a[k] = b[k]
                     THEN 1 ELSE 0)) % LimbBase])

LimbsLess(a, b) ==
    \E i \in 1..WideLimbs :
        /\ a[i] < b[i]
        /\ \A j \in (i + 1)..WideLimbs : a[j] = b[j]

\* k times d for k a power of 2 up to LimbBase
LimbsTimes(d, k) ==
    Limbs([i \in 1..WideLimbs |->
              ((d[i] * k) % LimbBase)
                  + (IF i > 1 THEN (d[i - 1] * k) \div LimbBase ELSE 0)])

\* the carries taken through: raw holds numbers that may exceed a limb
RECURSIVE LimbsCarry(_, _, _)
LimbsCarry(raw, carry, acc) ==
    IF Len(acc) = WideLimbs THEN acc
    ELSE LimbsCarry(raw, (raw[Len(acc) + 1] + carry) \div LimbBase,
                    Append(acc, (raw[Len(acc) + 1] + carry) % LimbBase))

\* the sum of a[i] * b[k + 1 - i] over the i from `from` on
RECURSIVE LimbsProductSum(_, _, _, _)
LimbsProductSum(a, b, k, from) ==
    IF from > Min(k, WordLimbs) THEN 0
    ELSE (IF k + 1 - from <= WordLimbs THEN a[from] * b[k + 1 - from] ELSE 0)
             + LimbsProductSum(a, b, k, from + 1)

\* the product of two words, exact
LimbsMul(a, b) ==
    LimbsCarry([k \in 1..WideLimbs |-> LimbsProductSum(a, b, k, 1)], 0, << >>)

LimbsReduce(r, d) == IF LimbsLess(r, d) THEN r ELSE LimbsSub(r, d)

\* r % d for r < 256 * d
LimbsReduceLimb(r, d) ==
    LimbsReduce(
        LimbsReduce(
            LimbsReduce(
                LimbsReduce(
                    LimbsReduce(
                        LimbsReduce(
                            LimbsReduce(
                                LimbsReduce(r, LimbsTimes(d, 128)),
                                LimbsTimes(d, 64)),
                            LimbsTimes(d, 32)),
                        LimbsTimes(d, 16)),
                    LimbsTimes(d, 8)),
                LimbsTimes(d, 4)),
            LimbsTimes(d, 2)),
        d)

\* the division of the word v by d, limb after limb from limb i down, r
\* being the remainder of the limbs above
RECURSIVE LimbsModFrom(_, _, _, _)
LimbsModFrom(v, d, i, r) ==
    IF i = 0 THEN r
    ELSE IF r = ToLimbs(0) /\ v[i] = 0 THEN LimbsModFrom(v, d, i - 1, r)
    ELSE LimbsModFrom(v, d, i - 1,
             LimbsReduceLimb(
                 LimbsAdd(LimbsTimes(r, LimbBase), ToLimbs(v[i])), d))

\* v % d for a word v
LimbsMod(v, d) == LimbsModFrom(v, d, WordLimbs, ToLimbs(0))

\* the word a wrapping build keeps of an exact value
WordWrap(v) ==
    Limbs([i \in 1..WideLimbs |-> IF i <= WordLimbs THEN v[i] ELSE 0])

WordOverflows(v) == \E i \in (WordLimbs + 1)..WideLimbs : v[i] # 0

\* ((self.a * x + self.b) % self.p) % self.m
WordApply(perm, x, overflow_checks) ==
    IF WordOverflows(LimbsMul(perm.a, x)) /\ overflow_checks
    THEN [pc |-> "panicked", result |-> ToLimbs(0)]
    ELSE IF /\ WordOverflows(LimbsAdd(WordWrap(LimbsMul(perm.a, x)), perm.b))
            /\ overflow_checks
    THEN [pc |-> "panicked", result |-> ToLimbs(0)]
    ELSE [pc |-> "returned",
          result |->
              LimbsMod(
                  LimbsMod(
                      WordWrap(LimbsAdd(WordWrap(LimbsMul(perm.a, x)), perm.b)),
                      perm.p),
                  perm.m)]

\* the k of the small index whose permutations are applied in full
ApplyK == 2

\* m = 4^17 and p = next_prime(m) = m + 25, the permutation of an index of
\* 17-mers, in limbs
LargeM == << 0, 0, 0, 0, 4, 0, 0, 0, 0, 0, 0, 0, 0, 0, 0, 0 >>
LargeP == << 25, 0, 0, 0, 4, 0, 0, 0, 0, 0, 0, 0, 0, 0, 0, 0 >>

\* the calls of apply: every a, b in [1, p] and x in [0, m) for m = 4^ApplyK,
\* and for m = 4^17 the ends of the ranges
ApplyCalls ==
    {[perm |-> [m |-> ToLimbs(Pow4(ApplyK)), p |-> ToLimbs(NextPrime(Pow4(ApplyK))),
                a |-> ToLimbs(a), b |-> ToLimbs(b)],
      x |-> ToLimbs(x)] :
         a \in 1..NextPrime(Pow4(ApplyK)), b \in 1..NextPrime(Pow4(ApplyK)),
         x \in 0..(Pow4(ApplyK) - 1)}
    \cup
    {[perm |-> [m |-> LargeM, p |-> LargeP, a |-> a, b |-> b], x |-> x] :
         a \in {ToLimbs(1), LargeP}, b \in {ToLimbs(1), LargeP},
         x \in {ToLimbs(0), ToLimbs(1), LimbsSub(LargeM, ToLimbs(1))}}

SpecApplyInit ==
    /\ UnitInit("call")
    /\ \E c \in ApplyCalls, overflow_checks \in BOOLEAN :
           call = [pc |-> "call", perm |-> c.perm, x |-> c.x,
                   overflow_checks |-> overflow_checks, result |-> ToLimbs(0)]

ApplyCall ==
    /\ call.pc = "call"
    /\ call' = [call EXCEPT
                   !.pc = WordApply(call.perm, call.x, call.overflow_checks).pc,
                   !.result =
                       WordApply(call.perm, call.x, call.overflow_checks).result]
    /\ UNCHANGED << confVars, enc, pipeVars, fin, build, sigc, newc, dg, startup >>

SpecApply == SpecApplyInit /\ [][ApplyCall]_vars

\* C24: a call of apply with x in [0, m) and a, b in [1, p] does not abort
\* and returns a value in [0, m), also when a * x + b does not fit the word.
C24_ApplyStaysInRange ==
    call.pc # "call" =>
        /\ call.pc = "returned"
        /\ LimbsLess(call.result, call.perm.m)

(***************************************************************************)
(* pseudo_permutation.rs and lsh.rs: the primes of the permutations that    *)
(* LSH::new builds in sequence, the first from p = k_mers, each of the      *)
(* others from the p of the one before                                      *)
(***************************************************************************)
\* the largest number a chain of primes starts from
MaxPrimeArg == 40

SpecNextPrimeInit ==
    /\ UnitInit("call")
    /\ call \in [pc : {"for"}, p_1 : 0..MaxPrimeArg, ps : {<< >>}]

\* one round of the loop of LSH::new: new_from_p, get_p, push
NewFromP ==
    /\ call.pc = "for"
    /\ Len(call.ps) < MaxR
    /\ call' = [call EXCEPT
                   !.ps = Append(@,
                              NextPrime(IF call.ps = << >> THEN call.p_1
                                        ELSE call.ps[Len(call.ps)]))]
    /\ UNCHANGED << confVars, enc, pipeVars, fin, build, sigc, newc, dg, startup >>

SpecNextPrime == SpecNextPrimeInit /\ [][NewFromP]_vars

\* C25: every p of the chain is the smallest odd prime strictly greater than
\* the number it was computed from, whatever that number from 0 on, so the
\* primes of the chain are strictly increasing.
C25_NextPrimeIsSmallestOddPrimeAbove ==
    call.pc = "for" =>
        LET ps == call.ps
            OddPrime(q) == /\ q > 1
                           /\ q % 2 = 1
                           /\ \A d \in 2..(q - 1) : q % d # 0
            from(i) == IF i = 1 THEN call.p_1 ELSE ps[i - 1]
        IN /\ \A i \in DOMAIN ps :
                  /\ OddPrime(ps[i])
                  /\ ps[i] > from(i)
                  /\ \A q \in (from(i) + 1)..(ps[i] - 1) : ~OddPrime(q)
           /\ \A i, j \in DOMAIN ps : i < j => ps[i] < ps[j]

(***************************************************************************)
(* main.rs: pooled_dist_check and pooled_dist_check_set, one call.  From    *)
(* the pooling trigger on, every candidate gets a task of the distance      *)
(* pool; a task reads the flag is_dist_ok and sends its distance over the   *)
(* channel, or skips the send; the caller receives candidates.len()         *)
(* distances and clears the flag before it returns false.  The distances    *)
(* are given in percent.                                                    *)
(***************************************************************************)
\* the largest number of candidates of a call
MaxCandidates == 3
\* the number of candidates the model pools from (the program pools from
\* DISTANCE_CHECK_POOLING_TRIGGER = 2000 candidates on)
PoolingTrigger == 2
\* the distances a candidate can have
DistancePercents == {0, MinDistToSeqsPercent, 100}

\* the flag with its value before the tasks are spawned, cleared
NewIsDistOkCleared == FALSE

\* Arc::new(parking_lot::RwLock::new(true))
NewIsDistOk == TRUE

\* the loop of the branch below the trigger, from candidate i on
RECURSIVE SequentialDistCheck(_, _, _)
SequentialDistCheck(distances, min, i) ==
    IF i > Len(distances) THEN TRUE
    ELSE IF distances[i] < min THEN FALSE
    ELSE SequentialDistCheck(distances, min, i + 1)

SpecPooledInit ==
    /\ UnitInit("call")
    /\ \E n \in 0..MaxCandidates :
           call \in [pc : {"enter"}, set : BOOLEAN,
                     distances : [1..n -> DistancePercents],
                     min : {MinDistToSeqsPercent},
                     is_dist_ok : {TRUE}, task : {[i \in 1..n |-> "none"]},
                     rx : {<< >>}, received : {0}, result : {FALSE}]

\* candidates.len() < DISTANCE_CHECK_POOLING_TRIGGER: the loop in the caller
PooledSequential ==
    /\ call.pc = "enter"
    /\ Len(call.distances) < PoolingTrigger
    /\ call' = [call EXCEPT
                   !.pc = "returned",
                   !.result = SequentialDistCheck(call.distances, call.min, 1)]
    /\ UNCHANGED << confVars, enc, pipeVars, fin, build, sigc, newc, dg, startup >>

\* the flag, the channel and the write lock of the pool
PooledEnter ==
    /\ call.pc = "enter"
    /\ Len(call.distances) >= PoolingTrigger
    /\ call' = [call EXCEPT !.pc = "spawn", !.is_dist_ok = NewIsDistOk]
    /\ UNCHANGED << confVars, enc, pipeVars, fin, build, sigc, newc, dg, startup >>

\* the candidates the next round of the spawning loop can take: the next of
\* the slice, any of the hash set
NextToSpawn ==
    LET left == {t \in DOMAIN call.task : call.task[t] = "none"}
    IN  IF call.set \/ left = {} THEN left ELSE {SetMin(left)}

\* pool_lock.spawn(...) of one candidate; after the last one the caller
\* goes on to receive
PooledSpawn ==
    /\ call.pc = "spawn"
    /\ \E t \in NextToSpawn :
           call' = [call EXCEPT
                       !.task[t] = "spawned",
                       !.pc = IF \A u \in DOMAIN call.task \ {t} :
                                     call.task[u] # "none"
                              THEN "recv" ELSE "spawn"]
    /\ UNCHANGED << confVars, enc, pipeVars, fin, build, sigc, newc, dg, startup >>

\* a task: if *is_dist_ok_cloned.read()
TaskRead(t) ==
    /\ call.pc \in {"spawn", "recv", "cancel", "returned"}
    /\ call.task[t] = "spawned"
    /\ call' = [call EXCEPT
                   !.task[t] = IF call.is_dist_ok THEN "send" ELSE "skipped"]
    /\ UNCHANGED << confVars, enc, pipeVars, fin, build, sigc, newc, dg, startup >>

\* a task: sender.send(distance); the channel holds candidates.len()
\* messages, so the send never waits, and it fails, unnoticed, once the
\* caller has dropped the receiver
TaskSend(t) ==
    /\ call.task[t] = "send"
    /\ call' = [call EXCEPT
                   !.task[t] = "sent",
                   !.rx = IF call.pc = "returned" THEN @
                          ELSE Append(@, call.distances[t])]
    /\ UNCHANGED << confVars, enc, pipeVars, fin, build, sigc, newc, dg, startup >>

\* the caller: rx.recv().unwrap() < min, and *is_dist_ok.write() = false
PooledRecv ==
    /\ call.pc = "recv"
    /\ call.received < Len(call.distances)
    /\ call.rx # << >>
    /\ call' = IF Head(call.rx) < call.min
               THEN [call EXCEPT !.rx = Tail(@), !.is_dist_ok = FALSE,
                                 !.pc = "cancel"]
               ELSE [call EXCEPT !.rx = Tail(@), !.received = @ + 1]
    /\ UNCHANGED << confVars, enc, pipeVars, fin, build, sigc, newc, dg, startup >>

\* the caller: return false after the flag is cleared, true after the loop
PooledReturn ==
    /\ \/ call.pc = "cancel"
       \/ call.pc = "recv" /\ call.received = Len(call.distances)
    /\ call' = [call EXCEPT !.pc = "returned", !.result = (call.pc = "recv")]
    /\ UNCHANGED << confVars, enc, pipeVars, fin, build, sigc, newc, dg, startup >>

PooledCaller ==
    PooledSequential \/ PooledEnter \/ PooledSpawn \/ PooledRecv \/ PooledReturn

SpecPooledNext ==
    \/ PooledSequential
    \/ PooledEnter
    \/ PooledSpawn
    \/ \E t \in 1..MaxCandidates : t \in DOMAIN call.task /\ TaskRead(t)
    \/ \E t \in 1..MaxCandidates : t \in DOMAIN call.task /\ TaskSend(t)
    \/ PooledRecv
    \/ PooledReturn

SpecPooled == SpecPooledInit /\ [][SpecPooledNext]_vars

\* the calling thread runs on, and the threads of the distance pool run
\* every spawned task
SpecPooledFair ==
    /\ SpecPooled
    /\ WF_vars(PooledCaller)
    /\ \A t \in 1..MaxCandidates :
           /\ WF_vars(t \in DOMAIN call.task /\ TaskRead(t))
           /\ WF_vars(t \in DOMAIN call.task /\ TaskSend(t))

\* C27: under every interleaving of the tasks and the caller, a call of the
\* pooled distance check returns what the sequential loop returns, true
\* exactly when every candidate is at distance >= min, and every call
\* returns: the caller never waits for a distance that a task did not send.
C27_PooledCheckEqualsSequential ==
    /\ [](call.pc = "returned" =>
              /\ call.result = SequentialDistCheck(call.distances, call.min, 1)
              /\ call.result = \A i \in DOMAIN call.distances :
                                   call.distances[i] >= call.min)
    /\ <>(call.pc = "returned")

\* a pooled call has returned false and a task has skipped its send
C27_Witness ==
    /\ call.pc = "returned"
    /\ Len(call.distances) >= PoolingTrigger
    /\ ~call.result
    /\ \E t \in DOMAIN call.task : call.task[t] = "skipped"

(***************************************************************************)
(* raptor.rs: one call of combine_packets_to_strand, one step per           *)
(* iteration of its loop over index_order                                   *)
(***************************************************************************)
\* the repair id the pools of the calls start from, at most
MaxFromEsi == 1

\* missing_packets without the packets that are left
MissingPacketsOfAll(overhead, current_overhead, length, packets_used) ==
    overhead - current_overhead

\* (overhead - current_overhead) - (packets.len() - packets_used)
MissingPackets(overhead, current_overhead, length, packets_used) ==
    (overhead - current_overhead) - (length - packets_used)

\* the pools generate_packets can hand to a call
CombinePools ==
    {<< row, GeneratePackets(row, count, from_esi) >> :
         row \in DOMAIN PayloadTable, count \in 0..MaxPackets,
         from_esi \in 0..MaxFromEsi}

SpecCombineInit ==
    /\ encoding_mode \in {ModeMixed, ModeNaive}
    /\ rng_seed \in 1..NumSeeds
    /\ arg_packets_per_block = 1
    /\ arg_overhead = DefaultOverhead
    /\ probes_lsh = BuildProbesLsh(encoding_mode, rng_seed)
    /\ enc = NoEnc
    /\ PipeIdle
    /\ UnitsIdleBut("call")
    /\ \E pool \in CombinePools :
           call \in [pc : {"for"}, row : {pool[1]}, packets : {pool[2]},
                     overhead : 0..MaxOverhead,
                     index_order : RandomOrders[Len(pool[2])],
                     current_overhead : {-1}, decoded : {FALSE},
                     fed : {{}}, dna_strand : {<< >>}, packets_used : {0},
                     result : {[kind |-> "none"]}]

\* one iteration of `for index in index_order`
CombineFor ==
    /\ call.pc = "for"
    /\ call.packets_used < Len(call.index_order)
    /\ LET packet_pair == call.packets[call.index_order[call.packets_used + 1]]
           packets_used == call.packets_used + 1
           fed == call.fed \cup {PacketEsi(packet_pair[2])}
           decoded == DecoderDecoded(call.row, fed)
           dna_strand == call.dna_strand \o packet_pair[1]
           current_overhead == call.current_overhead + 1
           missing_packets ==
               MissingPackets(call.overhead, current_overhead,
                              Len(call.packets), packets_used)
           after == [call EXCEPT !.packets_used = packets_used,
                                 !.fed = fed,
                                 !.decoded = decoded,
                                 !.dna_strand = dna_strand]
       IN  call' =
               IF ~decoded THEN after
               ELSE IF missing_packets > 0
               THEN [after EXCEPT
                        !.current_overhead = current_overhead,
                        !.pc = "returned",
                        !.result = [kind |-> "OverheadTooBig",
                                    missing |-> missing_packets]]
               ELSE IF current_overhead >= call.overhead
               THEN [after EXCEPT
                        !.current_overhead = current_overhead,
                        !.pc = "returned",
                        !.result =
                            [kind |-> IF StrandRuleNoDg(encoding_mode,
                                                        probes_lsh, dna_strand)
                                      THEN "Found" ELSE "RulesNotSatisfied",
                             strand |-> dna_strand,
                             n |-> packets_used % 256]]
               ELSE [after EXCEPT !.current_overhead = current_overhead]
    /\ UNCHANGED << confVars, enc, pipeVars, fin, build, sigc, newc, dg, startup >>

\* the loop is over: PacketsResult::NotDecodable
CombineNotDecodable ==
    /\ call.pc = "for"
    /\ call.packets_used >= Len(call.index_order)
    /\ call' = [call EXCEPT !.pc = "returned",
                            !.result = [kind |-> "NotDecodable"]]
    /\ UNCHANGED << confVars, enc, pipeVars, fin, build, sigc, newc, dg, startup >>

SpecCombineNext == CombineFor \/ CombineNotDecodable

SpecCombine == SpecCombineInit /\ [][SpecCombineNext]_vars

\* C29: with d the number of packets fed when the decoder first reports the
\* payload decoded and e the overhead, a returned call gives a strand, Found
\* or RulesNotSatisfied, only of exactly the first d + e packets of the
\* order; NotDecodable only after the whole order was fed and the decoder
\* never reported decoded; OverheadTooBig(m) only with
\* m = (e - current overhead) - packets left > 0.
C29_CombineResultMatchesItsCase ==
    call.pc = "returned" =>
        LET order == call.index_order
            Fed(n) == {PacketEsi(call.packets[order[i]][2]) : i \in 1..n}
            when == {n \in 1..Len(order) : DecoderDecoded(call.row, Fed(n))}
            d == SetMin(when)
            r == call.result
        IN  CASE r.kind \in {"Found", "RulesNotSatisfied"} ->
                     /\ when # {}
                     /\ call.packets_used = d + call.overhead
                     /\ r.strand = AppendedDna(call.packets, order,
                                               d + call.overhead)
                     /\ r.n = d + call.overhead
                     /\ (r.kind = "Found") =
                            StrandRuleNoDg(encoding_mode, probes_lsh, r.strand)
              [] r.kind = "NotDecodable" ->
                     /\ when = {}
                     /\ call.packets_used = Len(call.packets)
              [] r.kind = "OverheadTooBig" ->
                     /\ when # {}
                     /\ r.missing > 0
                     /\ r.missing = (call.overhead - call.current_overhead)
                                        - (Len(call.packets) - call.packets_used)
                     /\ call.packets_used = d
                     /\ call.current_overhead = 0

\* a call with overhead 1 has returned a strand of d + 1 packets
C29_Witness ==
    /\ call.pc = "returned"
    /\ call.overhead = 1
    /\ call.result.kind \in {"Found", "RulesNotSatisfied"}
    /\ call.packets_used >= 2

\* C37 (as stated): no worker aborts in the acceptance path, and a strand
\* that has arrived from the encoder is long enough for the k-mers of the
\* accepted strands whenever the mode asks for them at once.
C37_NoWorkerAborts ==
    /\ ~aborted
    /\ \A w \in Workers :
           wpc[w] = "arrived" /\ encoding_mode = ModeLsh
               => ~KMersPanics(encoded_seq[w].strand, SeqsK)

\* C38 (as stated): the caption of an entry is the 1-based index of the line
\* the entry's strand encodes, the Line Id reported with it.
C38_CaptionIsLineId ==
    \A i \in 1..Len(fasta) :
        /\ fasta[i].caption = fasta[i].line_id
        /\ fasta[i].caption \in Workers
        /\ fasta[i].strand = result_seq[fasta[i].caption]

(***************************************************************************)
(* main.rs: the locks the workers take.  seqs (in LSH mode the index of the *)
(* accepted strands) is behind a read-write lock; pooled_dist_check takes   *)
(* the write lock of the distance pool when it has 2000 candidates or more; *)
(* the predictor's channels are taken with try_lock inside the encoder.     *)
(* A worker's position says which locks it holds: "encode" none,            *)
(* "enc_pool" the pool, "enc_dg" a channel, "read" the read lock, "read_pool"*)
(* the read lock and the pool, "want_write" none, "write" the write lock,   *)
(* "write_pool" the write lock and the pool.                                *)
(***************************************************************************)
\* the readers if the read lock were kept
ReadersKept(readers, w) == readers

\* drop(read_lock), or the end of the block the guard lives in
ReadersAfterDrop(readers, w) == readers \ {w}

SpecLocksInit ==
    /\ UnitInit("call")
    /\ call \in [mode : {ModeLsh, ModeMixed, ModeNaive},
                 at : {[w \in Workers |-> "encode"]},
                 readers : {{}}, writer : {{}}, pool : {{}},
                 channels : {[ch \in Channels |-> {}]}]

\* the strand rule of LSH and mixed mode inside the encoder:
\* pooled_dist_check_set takes the pool
EncTakePool(w) ==
    /\ call.at[w] = "encode"
    /\ call.mode # ModeNaive
    /\ call.pool = {}
    /\ call' = [call EXCEPT !.at[w] = "enc_pool", !.pool = {w}]
    /\ UNCHANGED << confVars, enc, pipeVars, fin, build, sigc, newc, dg, startup >>

\* dg_check inside the encoder: try_lock finds channel ch free
EncTakeChannel(w, ch) ==
    /\ call.at[w] = "encode"
    /\ call.channels[ch] = {}
    /\ call' = [call EXCEPT !.at[w] = "enc_dg", !.channels[ch] = {w}]
    /\ UNCHANGED << confVars, enc, pipeVars, fin, build, sigc, newc, dg, startup >>

\* the pooled check or the round trip inside the encoder is over
EncRelease(w) ==
    /\ call.at[w] \in {"enc_pool", "enc_dg"}
    /\ call' = [call EXCEPT
                   !.at[w] = "encode",
                   !.pool = @ \ {w},
                   !.channels = [ch \in Channels |-> @[ch] \ {w}]]
    /\ UNCHANGED << confVars, enc, pipeVars, fin, build, sigc, newc, dg, startup >>

\* the encoder has returned: seqs.read() in mixed and naive mode
TakeRead(w) ==
    /\ call.at[w] = "encode"
    /\ call.mode # ModeLsh
    /\ call.writer = {}
    /\ call' = [call EXCEPT !.at[w] = "read", !.readers = @ \cup {w}]
    /\ UNCHANGED << confVars, enc, pipeVars, fin, build, sigc, newc, dg, startup >>

\* pooled_dist_check under the read or the write lock: pool.write()
TakePoolUnderLock(w) ==
    /\ call.at[w] \in {"read", "write"}
    /\ call.pool = {}
    /\ call' = [call EXCEPT !.at[w] = IF @ = "read" THEN "read_pool"
                                      ELSE "write_pool",
                            !.pool = {w}]
    /\ UNCHANGED << confVars, enc, pipeVars, fin, build, sigc, newc, dg, startup >>

\* pooled_dist_check returns, its guard of the pool is dropped
ReleasePoolUnderLock(w) ==
    /\ call.at[w] \in {"read_pool", "write_pool"}
    /\ call' = [call EXCEPT !.at[w] = IF @ = "read_pool" THEN "read"
                                      ELSE "write",
                            !.pool = {}]
    /\ UNCHANGED << confVars, enc, pipeVars, fin, build, sigc, newc, dg, startup >>

\* the checks under the read lock said yes: drop(read_lock), then
\* is_inserted_consistent asks for the write lock
ReadPassed(w) ==
    /\ call.at[w] = "read"
    /\ call' = [call EXCEPT !.at[w] = "want_write",
                            !.readers = ReadersAfterDrop(@, w)]
    /\ UNCHANGED << confVars, enc, pipeVars, fin, build, sigc, newc, dg, startup >>

\* the checks under the read lock said no: the guard is dropped at the end
\* of the block and the loop starts again
ReadRejected(w) ==
    /\ call.at[w] = "read"
    /\ call' = [call EXCEPT !.at[w] = "encode", !.readers = @ \ {w}]
    /\ UNCHANGED << confVars, enc, pipeVars, fin, build, sigc, newc, dg, startup >>

\* seqs.write() in is_inserted_consistent, encoded_seqs_lsh.write() in LSH
\* mode
TakeWrite(w) ==
    /\ \/ call.at[w] = "want_write"
       \/ call.at[w] = "encode" /\ call.mode = ModeLsh
    /\ call.writer = {}
    /\ call.readers = {}
    /\ call' = [call EXCEPT !.at[w] = "write", !.writer = {w}]
    /\ UNCHANGED << confVars, enc, pipeVars, fin, build, sigc, newc, dg, startup >>

\* the section under the write lock ends with the strand inserted or not
ReleaseWrite(w) ==
    /\ call.at[w] = "write"
    /\ \E inserted \in BOOLEAN :
           call' = [call EXCEPT !.at[w] = IF inserted THEN "done" ELSE "encode",
                                !.writer = {}]
    /\ UNCHANGED << confVars, enc, pipeVars, fin, build, sigc, newc, dg, startup >>

SpecLocksNext ==
    \/ \E w \in Workers : EncTakePool(w)
    \/ \E w \in Workers : \E ch \in Channels : EncTakeChannel(w, ch)
    \/ \E w \in Workers : EncRelease(w)
    \/ \E w \in Workers : TakeRead(w)
    \/ \E w \in Workers : TakePoolUnderLock(w)
    \/ \E w \in Workers : ReleasePoolUnderLock(w)
    \/ \E w \in Workers : ReadPassed(w)
    \/ \E w \in Workers : ReadRejected(w)
    \/ \E w \in Workers : TakeWrite(w)
    \/ \E w \in Workers : ReleaseWrite(w)

SpecLocks == SpecLocksInit /\ [][SpecLocksNext]_vars

\* C35: a worker that waits for the write lock, or is back in the encoder,
\* does not hold the read lock; a worker holds the pool together with the
\* lock of the accepted strands only after it took that lock, and holds a
\* channel only while it holds nothing else; the locks exclude as they
\* should; and as long as a worker has not finished, some worker can take a
\* step.
C35_NoDeadlock ==
    /\ \A w \in Workers :
           /\ call.at[w] \in {"want_write", "encode", "enc_pool", "enc_dg",
                              "write", "write_pool", "done"}
                  => w \notin call.readers
           /\ w \in call.pool => call.at[w] \in {"enc_pool", "read_pool", "write_pool"}
           /\ (\E ch \in Channels : w \in call.channels[ch]) =>
                  /\ call.at[w] = "enc_dg"
                  /\ w \notin call.pool /\ w \notin call.writer /\ w \notin call.readers
           /\ w \in call.writer => call.at[w] \in {"write", "write_pool"}
    /\ call.writer # {} => call.readers = {}
    /\ Cardinality(call.writer) <= 1 /\ Cardinality(call.pool) <= 1
    /\ (\E w \in Workers : call.at[w] # "done") => ENABLED SpecLocksNext

\* one worker waits for the write lock while the other holds the read lock
\* and the pool
C35_Witness ==
    \E v, w \in Workers :
        /\ call.at[v] = "want_write"
        /\ call.at[w] = "read_pool"

(***************************************************************************)
(* main.rs, LSH mode: the section of encode_file under the write lock of    *)
(* the index of the accepted strands, with insert's loop over the bands     *)
(* taken one band at a time.                                                *)
(***************************************************************************)
\* a write lock that excludes nobody
WriteFreeAlways(holders) == TRUE

\* encoded_seqs_lsh.write() returns only when nobody holds the lock
WriteFree(holders) == holders = {}

SectionCandidates == BuildStrands \cup {<<0, 1, 0, 0>>}

SpecLshSectionInit ==
    /\ UnitInit("call")
    /\ call \in [lsh : {LshNew(LshKSeqs, LshR, LshBands, seed, 4) :
                            seed \in 1..NumSeeds},
                 holders : {{}},
                 at : {[w \in Workers |-> "encode"]},
                 cand : {[w \in Workers |-> << >>]},
                 seen : {[w \in Workers |-> << >>]},
                 similar : {[w \in Workers |-> {}]},
                 bands_done : {[w \in Workers |-> 0]}]

\* encode_to_dna_with_rules returns a strand
SectionArrive(w) ==
    /\ call.at[w] = "encode"
    /\ \E c \in SectionCandidates :
           call' = [call EXCEPT !.at[w] = "arrived", !.cand[w] = c]
    /\ UNCHANGED << confVars, enc, pipeVars, fin, build, sigc, newc, dg, startup >>

\* let mut write_lock = encoded_seqs_lsh.write()
SectionLock(w) ==
    /\ call.at[w] = "arrived"
    /\ WriteFree(call.holders)
    /\ call' = [call EXCEPT !.at[w] = "locked", !.holders = @ \cup {w}]
    /\ UNCHANGED << confVars, enc, pipeVars, fin, build, sigc, newc, dg, startup >>

\* write_lock.similar_seqs(&encoded_seq); a strand shorter than k aborts the
\* worker, the guard is dropped while it unwinds
SectionQuery(w) ==
    /\ call.at[w] = "locked"
    /\ IF KMersPanics(call.cand[w], call.lsh.k)
       THEN call' = [call EXCEPT !.at[w] = "panicked", !.holders = @ \ {w}]
       ELSE call' = [call EXCEPT
                        !.at[w] = "queried",
                        !.seen[w] = call.lsh,
                        !.similar[w] = SimilarSeqs(call.lsh, call.cand[w])]
    /\ UNCHANGED << confVars, enc, pipeVars, fin, build, sigc, newc, dg, startup >>

\* pooled_dist_check_set over the neighbours; a refusal ends the round and
\* drops the guard
SectionCheck(w) ==
    /\ call.at[w] = "queried"
    /\ \E answer \in PooledDistCheckSet(call.cand[w], call.similar[w],
                                        MinDistToSeqsPercent, SeqsK) :
           call' = [call EXCEPT
                       !.at[w] = CASE answer = "ok" -> "inserting"
                                   [] answer = "fail" -> "encode"
                                   [] OTHER -> "panicked",
                       !.bands_done[w] = 0,
                       !.holders = IF answer = "ok" THEN @ ELSE @ \ {w}]
    /\ UNCHANGED << confVars, enc, pipeVars, fin, build, sigc, newc, dg, startup >>

\* one round of the loop of write_lock.insert(&encoded_seq)
SectionInsertBand(w) ==
    /\ call.at[w] = "inserting"
    /\ call.bands_done[w] < Len(call.lsh.bands)
    /\ LET band == call.bands_done[w] + 1
           sig == Signatures(call.lsh, call.cand[w])[band]
       IN  call' = [call EXCEPT
                       !.lsh.bands[band] = BandInsert(@, sig, call.cand[w]),
                       !.bands_done[w] = band]
    /\ UNCHANGED << confVars, enc, pipeVars, fin, build, sigc, newc, dg, startup >>

\* insert has returned: break, the guard is dropped
SectionLeave(w) ==
    /\ call.at[w] = "inserting"
    /\ call.bands_done[w] = Len(call.lsh.bands)
    /\ call' = [call EXCEPT !.at[w] = "done", !.holders = @ \ {w}]
    /\ UNCHANGED << confVars, enc, pipeVars, fin, build, sigc, newc, dg, startup >>

SpecLshSectionNext ==
    \/ \E w \in Workers : SectionArrive(w)
    \/ \E w \in Workers : SectionLock(w)
    \/ \E w \in Workers : SectionQuery(w)
    \/ \E w \in Workers : SectionCheck(w)
    \/ \E w \in Workers : SectionInsertBand(w)
    \/ \E w \in Workers : SectionLeave(w)

SpecLshSection == SpecLshSectionInit /\ [][SpecLshSectionNext]_vars

\* a strand of the index is found in every band under its own signature
StoredWhole(lsh) ==
    \A s \in LshContents(lsh) :
        \A band \in 1..Len(lsh.bands) :
            s \in BandGet(lsh.bands[band], Signatures(lsh, s)[band])

InSection(w) == call.at[w] \in {"locked", "queried", "inserting"}

\* C36: at most one worker is between its lock and its release; from a
\* worker's query until its own insert begins the index is the one it
\* queried; and the index a query reads holds every strand in all its bands.
C36_SectionIsAtomic ==
    /\ Cardinality({w \in Workers : InSection(w)}) <= 1
    /\ \A w \in Workers :
           /\ call.at[w] = "queried" =>
                  /\ call.lsh = call.seen[w]
                  /\ StoredWhole(call.seen[w])
           /\ call.at[w] = "inserting" /\ call.bands_done[w] = 0 =>
                  call.lsh = call.seen[w]

\* a worker has queried an index that already holds another worker's strand,
\* while that other worker is done
C36_Witness ==
    \E v, w \in Workers :
        /\ call.at[v] = "done"
        /\ call.at[w] = "queried"
        /\ call.cand[v] \in LshContents(call.seen[w])

=============================================================================
